---------------------------- MODULE Spec2Model ----------------------------
(***************************************************************************)
(* Transaction-graph analysis engine of moneyforensics                     *)
(* (src/unnamed/part_003, imported by the page as "@/lib/graphAnalysis").  *)
(*                                                                         *)
(* Representation                                                          *)
(*   - an account id is a string;                                          *)
(*   - a timestamp is Date.getTime(), an integer number of milliseconds    *)
(*     counted from the start of the data set;                             *)
(*   - an amount is an integer number of cents, so the literal 1 of the    *)
(*     source is 100 and the thresholds of the source are multiplied by    *)
(*     100; a comparison of a quotient with a decimal literal is written   *)
(*     as the cross-multiplied integer comparison;                         *)
(*   - a JavaScript Map is a sequence of [key, val] records in insertion   *)
(*     order, a JavaScript Set of strings a TLA+ set (where its iteration  *)
(*     order is used, a sequence without repetition).                      *)
(***************************************************************************)
EXTENDS Integers, Sequences, FiniteSets, TLC

VARIABLES
    transactions,       \* Transaction[] handed to analyzeTransactions
    pc,                 \* position of the run inside analyzeTransactions
    adj,                \* Map<string, string[]>
    allAccounts,        \* Set<string>
    txCounts,           \* Map<string, number>
    sentAmounts,        \* Map<string, number>
    recvAmounts,        \* Map<string, number>
    fraudRings,         \* FraudRing[]
    accountRings,       \* Map<string, string[]>
    accountPatterns,    \* Map<string, string[]>
    ringCounter,        \* number
    cycles,             \* string[][] returned by detectCycles
    smurfingResults,    \* Map<string, string[]> returned by detectSmurfing
    shells,             \* string[][] returned by detectLayeredShells
    velocityResults,    \* Map returned by detectHighVelocity
    structuringResults, \* Map returned by detectStructuring
    roundTripResults,   \* Map returned by detectRoundTrips
    dormantResults,     \* Map returned by detectDormantActivation
    result,             \* AnalysisResult returned to the page, or "null"
    scoreArgs,          \* arguments of a direct call of calcSuspicionScore
    scoreResult,        \* value returned by that call, or "none"
    previous,           \* input and output of the call before this one, or "none"
    search              \* stack, seen keys and findings of a path search in progress, or "none"

vars == <<transactions, pc, adj, allAccounts, txCounts, sentAmounts, recvAmounts,
          fraudRings, accountRings, accountPatterns, ringCounter, cycles,
          smurfingResults, shells, velocityResults, structuringResults,
          roundTripResults, dormantResults, result, scoreArgs, scoreResult,
          previous, search>>

-----------------------------------------------------------------------------
(* Bounds of the model *)

\* longest transaction list of the graph inputs, parsed in any order
MaxGraphTx == 6
\* longest transaction list of the time-window inputs, parsed in any order
MaxTx == 5
\* rows of the file with a shell chain whose first account pays many receivers
MaxRingTx == 13
\* rows of a file with nested cycles
MaxCycleTx == 7
\* number of rows of the file of one sender's outgoing transactions
MaxBulkTx == 12
\* longest pattern list handed to a direct call of calcSuspicionScore
MaxPatterns == 5
\* most rows among the normal accounts in front of the sample's patterns
MaxNormalTx == 3

-----------------------------------------------------------------------------
(* Sequences and JavaScript Maps *)

Min2(a, b) == IF a <= b THEN a ELSE b
Max2(a, b) == IF a >= b THEN a ELSE b

Range(s) == { s[i] : i \in 1..Len(s) }

\* Array.prototype.includes
Includes(s, x) == \E i \in 1..Len(s) : s[i] = x

\* Array.prototype.indexOf, 0-based, -1 when absent
IndexOf(s, x) ==
    IF Includes(s, x) THEN (CHOOSE i \in 1..Len(s) : s[i] = x /\ \A j \in 1..(i-1) : s[j] # x) - 1
    ELSE -1

\* `if (!a.includes(x)) a.push(x)`
PushNew(s, x) == IF Includes(s, x) THEN s ELSE Append(s, x)

RECURSIVE PushAllNew(_, _)
PushAllNew(s, xs) ==
    IF xs = <<>> THEN s ELSE PushAllNew(PushNew(s, Head(xs)), Tail(xs))

MapHas(m, k) == \E i \in 1..Len(m) : m[i].key = k
MapGet(m, k) == m[CHOOSE i \in 1..Len(m) : m[i].key = k].val
\* `m.get(k) || d`
MapGetOr(m, k, d) == IF MapHas(m, k) THEN MapGet(m, k) ELSE d
\* Map.prototype.set: a new key goes last, an old key keeps its place
MapSet(m, k, v) ==
    IF MapHas(m, k)
    THEN [i \in 1..Len(m) |-> IF m[i].key = k THEN [key |-> k, val |-> v] ELSE m[i]]
    ELSE Append(m, [key |-> k, val |-> v])
\* Array.from(m.keys())
MapKeys(m) == [i \in 1..Len(m) |-> m[i].key]

-----------------------------------------------------------------------------
(* Account ids *)

\* Every account id the inputs use, in the order of String comparison by
\* UTF-16 code units, which is the order of Array.prototype.sort() without a
\* comparator ("," is 0x2C and "-" is 0x2D: both sort before every letter and
\* digit).
AccountOrder ==
    << "A", "A,B", "A->B",
       "ACC_00001", "ACC_00002", "ACC_00003",
       "ACC_00101", "ACC_00102", "ACC_00103",
       "ACC_00200", "ACC_00201", "ACC_00202", "ACC_00203", "ACC_00204", "ACC_00205",
       "ACC_00210", "ACC_00211", "ACC_00212",
       "ACC_00301", "ACC_00302", "ACC_00303", "ACC_00304",
       "B", "B,C", "C", "D", "E", "F", "P", "Q", "R", "S1", "S2", "S3", "S4", "S5", "X", "Y", "Z" >>

AccountRank(a) == CHOOSE i \in 1..Len(AccountOrder) : AccountOrder[i] = a

\* insertion of x into a sequence sorted by code units
RECURSIVE InsertSorted(_, _)
InsertSorted(s, x) ==
    IF s = <<>> THEN <<x>>
    ELSE IF AccountRank(x) < AccountRank(Head(s)) THEN <<x>> \o s
         ELSE <<Head(s)>> \o InsertSorted(Tail(s), x)

\* [...path].sort()
RECURSIVE SortStrings(_)
SortStrings(s) ==
    IF s = <<>> THEN <<>> ELSE InsertSorted(SortStrings(Tail(s)), Head(s))

\* Array.prototype.join(",")
RECURSIVE JoinComma(_)
JoinComma(s) ==
    IF s = <<>> THEN ""
    ELSE IF Len(s) = 1 THEN s[1]
         ELSE s[1] \o "," \o JoinComma(Tail(s))

-----------------------------------------------------------------------------
(* buildAdjacencyList *)

\* buildAdjacencyList without the `includes` test before the push
RECURSIVE buildAdjacencyListDup(_, _)
buildAdjacencyListDup(txs, m) ==
    IF txs = <<>> THEN m
    ELSE LET t == Head(txs)
         IN  buildAdjacencyListDup(Tail(txs),
                 MapSet(m, t.sender_id, Append(MapGetOr(m, t.sender_id, <<>>), t.receiver_id)))

RECURSIVE buildAdjacencyListFrom(_, _)
buildAdjacencyListFrom(txs, m) ==
    IF txs = <<>> THEN m
    ELSE LET t  == Head(txs)
             m1 == IF MapHas(m, t.sender_id) THEN m ELSE MapSet(m, t.sender_id, <<>>)
             m2 == MapSet(m1, t.sender_id, PushNew(MapGet(m1, t.sender_id), t.receiver_id))
         IN  buildAdjacencyListFrom(Tail(txs), m2)

buildAdjacencyList(txs) == buildAdjacencyListFrom(txs, <<>>)

-----------------------------------------------------------------------------
(* detectCycles *)

\* the loop over the neighbours without the test `!path.includes(next)`
RECURSIVE CycleNeighborsRevisit(_, _, _, _, _)
CycleNeighborsRevisit(start, path, nbrs, maxLength, st) ==
    IF nbrs = <<>> THEN st
    ELSE LET next == Head(nbrs)
             st1  ==
                IF next = start /\ Len(path) >= 3 /\ Len(path) <= maxLength
                THEN LET sorted == JoinComma(SortStrings(path))
                     IN  IF sorted \in st.seen THEN st
                         ELSE [st EXCEPT !.seen = @ \cup {sorted},
                                         !.cycles = Append(@, path)]
                ELSE IF Len(path) < maxLength
                     THEN [st EXCEPT !.stack =
                              Append(@, [node |-> next, path |-> Append(path, next)])]
                     ELSE st
         IN  CycleNeighborsRevisit(start, path, Tail(nbrs), maxLength, st1)

\* the loop over the neighbours of the popped node
RECURSIVE CycleNeighbors(_, _, _, _, _)
CycleNeighbors(start, path, nbrs, maxLength, st) ==
    IF nbrs = <<>> THEN st
    ELSE LET next == Head(nbrs)
             st1  ==
                IF next = start /\ Len(path) >= 3 /\ Len(path) <= maxLength
                THEN LET sorted == JoinComma(SortStrings(path))
                     IN  IF sorted \in st.seen THEN st
                         ELSE [st EXCEPT !.seen = @ \cup {sorted},
                                         !.cycles = Append(@, path)]
                ELSE IF ~Includes(path, next) /\ Len(path) < maxLength
                     THEN [st EXCEPT !.stack =
                              Append(@, [node |-> next, path |-> Append(path, next)])]
                     ELSE st
         IN  CycleNeighbors(start, path, Tail(nbrs), maxLength, st1)

\* one iteration of `while (stack.length > 0)`: the pop and the neighbour loop
CycleVisit(a, start, maxLength, st) ==
    LET top    == st.stack[Len(st.stack)]
        popped == [st EXCEPT !.stack = SubSeq(@, 1, Len(@) - 1)]
    IN  CycleNeighbors(start, top.path, MapGetOr(a, top.node, <<>>), maxLength, popped)

\* `while (stack.length > 0)`
RECURSIVE CycleSearch(_, _, _, _)
CycleSearch(a, start, maxLength, st) ==
    IF st.stack = <<>> THEN st
    ELSE CycleSearch(a, start, maxLength, CycleVisit(a, start, maxLength, st))

\* `for (const start of nodes)`
RECURSIVE CycleStarts(_, _, _, _)
CycleStarts(a, nodes, maxLength, st) ==
    IF nodes = <<>> THEN st
    ELSE LET start == Head(nodes)
             st0   == [st EXCEPT !.stack = << [node |-> start, path |-> <<start>>] >>]
         IN  CycleStarts(a, Tail(nodes), maxLength, CycleSearch(a, start, maxLength, st0))

detectCyclesUpTo(a, maxLength) ==
    CycleStarts(a, MapKeys(a), maxLength,
                [stack |-> <<>>, seen |-> {}, cycles |-> <<>>]).cycles

\* the default argument maxLength = 5
detectCycles(a) == detectCyclesUpTo(a, 5)

-----------------------------------------------------------------------------
(* Helpers shared by the window detectors *)

\* insertion of t behind every element whose timestamp is not later (stable)
RECURSIVE InsertByTime(_, _)
InsertByTime(s, t) ==
    IF s = <<>> THEN <<t>>
    ELSE IF t.timestamp < Head(s).timestamp THEN <<t>> \o s
         ELSE <<Head(s)>> \o InsertByTime(Tail(s), t)

\* [...transactions].sort((a, b) => a.timestamp.getTime() - b.timestamp.getTime())
RECURSIVE SortByTimeFrom(_, _)
SortByTimeFrom(txs, acc) ==
    IF txs = <<>> THEN acc ELSE SortByTimeFrom(Tail(txs), InsertByTime(acc, Head(txs)))

SortByTime(txs) == SortByTimeFrom(txs, <<>>)

\* `if (!m.has(t.receiver_id)) m.set(t.receiver_id, []); m.get(t.receiver_id).push(t)`
RECURSIVE GroupByReceiver(_, _)
GroupByReceiver(txs, m) ==
    IF txs = <<>> THEN m
    ELSE LET t == Head(txs)
         IN  GroupByReceiver(Tail(txs),
                 MapSet(m, t.receiver_id, Append(MapGetOr(m, t.receiver_id, <<>>), t)))

RECURSIVE GroupBySender(_, _)
GroupBySender(txs, m) ==
    IF txs = <<>> THEN m
    ELSE LET t == Head(txs)
         IN  GroupBySender(Tail(txs),
                 MapSet(m, t.sender_id, Append(MapGetOr(m, t.sender_id, <<>>), t)))

\* the window without its closing instant
WindowFromHalfOpen(txs, windowStart, windowMs) ==
    SelectSeq(txs, LAMBDA t : t.timestamp >= windowStart /\ t.timestamp < windowStart + windowMs)

\* txs.filter(t => t.timestamp >= windowStart && t.timestamp <= windowStart + windowMs)
WindowFrom(txs, windowStart, windowMs) ==
    SelectSeq(txs, LAMBDA t : t.timestamp >= windowStart /\ t.timestamp <= windowStart + windowMs)

\* the elements of new Set(s), in insertion order
UniqueOf(s) == PushAllNew(<<>>, s)

SendersOf(txs) == [i \in 1..Len(txs) |-> txs[i].sender_id]
ReceiversOf(txs) == [i \in 1..Len(txs) |-> txs[i].receiver_id]

\* `const pats = m.get(acc) || []; if (!pats.includes(p)) pats.push(p); m.set(acc, pats)`
\* the push of the cycle label without the test `!pats.includes(patternName)`
AddPatternUnchecked(m, acc, p) == MapSet(m, acc, Append(MapGetOr(m, acc, <<>>), p))

AddPattern(m, acc, p) == MapSet(m, acc, PushNew(MapGetOr(m, acc, <<>>), p))

RECURSIVE AddPatternAll(_, _, _)
AddPatternAll(m, accs, p) ==
    IF accs = <<>> THEN m ELSE AddPatternAll(AddPattern(m, Head(accs), p), Tail(accs), p)

-----------------------------------------------------------------------------
(* detectSmurfing *)

SmurfWindowMs == 72 * 60 * 60 * 1000

\* the fan-in test on the anchor i alone, later anchors left out
FanInFirstAnchor(receiver, txs, i, suspicious) ==
    IF i > Len(txs) THEN suspicious
    ELSE LET window        == WindowFrom(txs, txs[i].timestamp, SmurfWindowMs)
             uniqueSenders == UniqueOf(SendersOf(window))
         IN  IF Len(uniqueSenders) >= 3
             THEN AddPatternAll(AddPattern(suspicious, receiver, "fan_in"),
                                uniqueSenders, "smurfing_source")
             ELSE suspicious

\* the anchors i..txs.length of one receiver; the map of one iteration is
\* evaluated (the test of Len) before the next iteration begins
RECURSIVE FanInAnchors(_, _, _, _)
FanInAnchors(receiver, txs, i, suspicious) ==
    IF i > Len(txs) THEN suspicious
    ELSE LET window        == WindowFrom(txs, txs[i].timestamp, SmurfWindowMs)
             uniqueSenders == UniqueOf(SendersOf(window))
             s1 == IF Len(uniqueSenders) >= 3
                   THEN AddPatternAll(AddPattern(suspicious, receiver, "fan_in"),
                                      uniqueSenders, "smurfing_source")
                   ELSE suspicious
         IN  IF Len(s1) >= 0 THEN FanInAnchors(receiver, txs, i + 1, s1) ELSE s1

RECURSIVE FanInReceivers(_, _, _)
FanInReceivers(receiverMap, k, suspicious) ==
    IF k > Len(receiverMap) THEN suspicious
    ELSE LET s1 == FanInAnchors(receiverMap[k].key, receiverMap[k].val, 1, suspicious)
         IN  IF Len(s1) >= 0 THEN FanInReceivers(receiverMap, k + 1, s1) ELSE s1

\* the anchors i..txs.length of one sender
RECURSIVE FanOutAnchors(_, _, _, _)
FanOutAnchors(sender, txs, i, suspicious) ==
    IF i > Len(txs) THEN suspicious
    ELSE LET window          == WindowFrom(txs, txs[i].timestamp, SmurfWindowMs)
             uniqueReceivers == UniqueOf(ReceiversOf(window))
             s1 == IF Len(uniqueReceivers) >= 3
                   THEN AddPattern(suspicious, sender, "fan_out")
                   ELSE suspicious
         IN  IF Len(s1) >= 0 THEN FanOutAnchors(sender, txs, i + 1, s1) ELSE s1

RECURSIVE FanOutSenders(_, _, _)
FanOutSenders(senderMap, k, suspicious) ==
    IF k > Len(senderMap) THEN suspicious
    ELSE LET s1 == FanOutAnchors(senderMap[k].key, senderMap[k].val, 1, suspicious)
         IN  IF Len(s1) >= 0 THEN FanOutSenders(senderMap, k + 1, s1) ELSE s1

\* the fan-in loops are evaluated to their end (the test of Len) before the
\* fan-out loops begin, as the statements of the source are
detectSmurfing(txs) ==
    LET sorted == SortByTime(txs)
        fanIn  == FanInReceivers(GroupByReceiver(sorted, <<>>), 1, <<>>)
    IN  IF Len(sorted) >= 0 /\ Len(fanIn) >= 0
        THEN FanOutSenders(GroupBySender(sorted, <<>>), 1, fanIn)
        ELSE <<>>

-----------------------------------------------------------------------------
(* detectLayeredShells *)

\* intermediaries allowed one transaction at most
AllLowActivityAtMostOne(path, transactionCounts) ==
    \A i \in 2..(Len(path) - 1) : MapGetOr(transactionCounts, path[i], 0) <= 1

\* path.slice(1, -1).every(n => (transactionCounts.get(n) || 0) <= 3)
AllLowActivity(path, transactionCounts) ==
    \A i \in 2..(Len(path) - 1) : MapGetOr(transactionCounts, path[i], 0) <= 3

\* the loop over the neighbours of the popped node
RECURSIVE ShellNeighbors(_, _, _)
ShellNeighbors(path, nbrs, stack) ==
    IF nbrs = <<>> THEN stack
    ELSE LET next == Head(nbrs)
         IN  ShellNeighbors(path, Tail(nbrs),
                 IF ~Includes(path, next)
                 THEN Append(stack, [node |-> next, path |-> Append(path, next)])
                 ELSE stack)

\* one iteration of `while (stack.length > 0)`: the pop, the test of the popped
\* path and the neighbour loop
ShellVisit(a, transactionCounts, st) ==
    LET top  == st.stack[Len(st.stack)]
        path == top.path
        rest == SubSeq(st.stack, 1, Len(st.stack) - 1)
        key  == JoinComma(path)
        st1  == IF Len(path) >= 4 /\ AllLowActivity(path, transactionCounts)
                   /\ key \notin st.seen
                THEN [st EXCEPT !.seen = @ \cup {key}, !.chains = Append(@, path)]
                ELSE st
        stack1 == IF Len(path) < 6
                  THEN ShellNeighbors(path, MapGetOr(a, top.node, <<>>), rest)
                  ELSE rest
    IN  [st1 EXCEPT !.stack = stack1]

\* `while (stack.length > 0)`
RECURSIVE ShellSearch(_, _, _)
ShellSearch(a, transactionCounts, st) ==
    IF st.stack = <<>> THEN st
    ELSE ShellSearch(a, transactionCounts, ShellVisit(a, transactionCounts, st))

\* `for (const start of nodes)`
RECURSIVE ShellStarts(_, _, _, _)
ShellStarts(a, transactionCounts, nodes, st) ==
    IF nodes = <<>> THEN st
    ELSE LET st0 == [st EXCEPT !.stack = << [node |-> Head(nodes), path |-> <<Head(nodes)>>] >>]
         IN  ShellStarts(a, transactionCounts, Tail(nodes),
                         ShellSearch(a, transactionCounts, st0))

detectLayeredShells(a, transactionCounts) ==
    ShellStarts(a, transactionCounts, MapKeys(a),
                [stack |-> <<>>, seen |-> {}, chains |-> <<>>]).chains

-----------------------------------------------------------------------------
(* detectHighVelocity *)

RapidWindowMs == 30 * 60 * 1000
MIN_RAPID_TXS == 4

\* the anchors i..txs.length of one sender, left at the first that qualifies (break)
RECURSIVE VelocityAnchors(_, _)
VelocityAnchors(txs, i) ==
    IF i > Len(txs) THEN FALSE
    ELSE IF Len(WindowFrom(txs, txs[i].timestamp, RapidWindowMs)) >= MIN_RAPID_TXS THEN TRUE
         ELSE VelocityAnchors(txs, i + 1)

RECURSIVE VelocitySenders(_, _, _)
VelocitySenders(senderTxs, k, suspicious) ==
    IF k > Len(senderTxs) THEN suspicious
    ELSE VelocitySenders(senderTxs, k + 1,
             IF VelocityAnchors(senderTxs[k].val, 1)
             THEN AddPattern(suspicious, senderTxs[k].key, "high_velocity")
             ELSE suspicious)

detectHighVelocity(txs) == VelocitySenders(GroupBySender(SortByTime(txs), <<>>), 1, <<>>)

-----------------------------------------------------------------------------
(* detectStructuring *)

\* thresholds whose margin bands overlap
StructuringThresholdsOverlapping == << 10000 * 100, 9800 * 100, 3000 * 100 >>

\* THRESHOLDS = [10000, 5000, 3000] and MARGIN = 500, in cents
StructuringThresholds == << 10000 * 100, 5000 * 100, 3000 * 100 >>
StructuringMargin == 500 * 100

\* the inner loop over THRESHOLDS with an amount equal to the threshold counted
RECURSIVE StructuringHitsUpToThreshold(_, _)
StructuringHitsUpToThreshold(amount, k) ==
    IF k > Len(StructuringThresholds) THEN 0
    ELSE (IF amount >= StructuringThresholds[k] - StructuringMargin
             /\ amount <= StructuringThresholds[k] THEN 1 ELSE 0)
         + StructuringHitsUpToThreshold(amount, k + 1)

\* the inner loop over THRESHOLDS for one transaction
RECURSIVE StructuringHits(_, _)
StructuringHits(amount, k) ==
    IF k > Len(StructuringThresholds) THEN 0
    ELSE (IF amount >= StructuringThresholds[k] - StructuringMargin
             /\ amount < StructuringThresholds[k] THEN 1 ELSE 0)
         + StructuringHits(amount, k + 1)

RECURSIVE StructuringCount(_)
StructuringCount(txs) ==
    IF txs = <<>> THEN 0
    ELSE StructuringHits(Head(txs).amount, 1) + StructuringCount(Tail(txs))

RECURSIVE StructuringSenders(_, _, _)
StructuringSenders(senderTxs, k, suspicious) ==
    IF k > Len(senderTxs) THEN suspicious
    ELSE StructuringSenders(senderTxs, k + 1,
             IF StructuringCount(senderTxs[k].val) >= 3
             THEN AddPattern(suspicious, senderTxs[k].key, "structuring")
             ELSE suspicious)

detectStructuring(txs) == StructuringSenders(GroupBySender(txs, <<>>), 1, <<>>)

-----------------------------------------------------------------------------
(* detectRoundTrips *)

RoundTripWindowMs == 7 * 24 * 60 * 60 * 1000

\* `${t.sender_id}->${t.receiver_id}`
PairKey(a, b) == a \o "->" \o b

\* id.split("->"): the pieces of an account id between its arrows
IdParts(id) == IF id = "A->B" THEN <<"A", "B">> ELSE <<id>>

\* `const [a, b] = key.split("->")`: the first two pieces of the key, which
\* are the two ids only when the sender's id holds no arrow
SplitArrow(key) ==
    LET p     == CHOOSE q \in Range(AccountOrder) \X Range(AccountOrder) :
                     PairKey(q[1], q[2]) = key
        parts == IdParts(p[1]) \o IdParts(p[2])
    IN  <<parts[1], parts[2]>>

RECURSIVE BuildPairMap(_, _)
BuildPairMap(txs, m) ==
    IF txs = <<>> THEN m
    ELSE LET t   == Head(txs)
             key == PairKey(t.sender_id, t.receiver_id)
         IN  BuildPairMap(Tail(txs), MapSet(m, key, Append(MapGetOr(m, key, <<>>), t)))

Abs(x) == IF x < 0 THEN -x ELSE x

\* timeDiff <= WINDOW_MS && amountRatio >= 1 - TOLERANCE, TOLERANCE = 0.15
RoundTripMatch(t1, t2) ==
    /\ Abs(t1.timestamp - t2.timestamp) <= RoundTripWindowMs
    /\ 100 * Min2(t1.amount, t2.amount) >= 85 * Max2(t1.amount, t2.amount)

RECURSIVE RoundTripPairs(_, _, _)
RoundTripPairs(pairMap, k, suspicious) ==
    IF k > Len(pairMap) THEN suspicious
    ELSE LET ab         == SplitArrow(pairMap[k].key)
             reverseKey == PairKey(ab[2], ab[1])
             txs        == pairMap[k].val
             hit == /\ MapHas(pairMap, reverseKey)
                    /\ \E i \in 1..Len(txs) :
                          \E j \in 1..Len(MapGet(pairMap, reverseKey)) :
                              RoundTripMatch(txs[i], MapGet(pairMap, reverseKey)[j])
         IN  RoundTripPairs(pairMap, k + 1,
                 IF hit THEN AddPatternAll(suspicious, <<ab[1], ab[2]>>, "round_trip")
                 ELSE suspicious)

detectRoundTrips(txs) == RoundTripPairs(BuildPairMap(txs, <<>>), 1, <<>>)

-----------------------------------------------------------------------------
(* detectDormantActivation *)

BurstWindowMs == 48 * 60 * 60 * 1000
DormantMinSpanMs == 7 * 24 * 60 * 60 * 1000

\* `for (const id of [t.sender_id, t.receiver_id])` over the sorted transactions
RECURSIVE GroupByAccount(_, _)
GroupByAccount(txs, m) ==
    IF txs = <<>> THEN m
    ELSE LET t  == Head(txs)
             m1 == MapSet(m, t.sender_id, Append(MapGetOr(m, t.sender_id, <<>>), t))
             m2 == MapSet(m1, t.receiver_id, Append(MapGetOr(m1, t.receiver_id, <<>>), t))
         IN  GroupByAccount(Tail(txs), m2)

\* Math.floor(n * 0.7)
FloorSeventy(n) == (7 * n) \div 10

\* Math.ceil(n * 0.7)
CeilSeventy(n) == (7 * n + 9) \div 10

\* the anchors i..accSorted.length of one account, left at the first that qualifies
RECURSIVE DormantAnchors(_, _, _)
DormantAnchors(accSorted, accSpan, i) ==
    IF i > Len(accSorted) THEN FALSE
    ELSE IF /\ Len(WindowFrom(accSorted, accSorted[i].timestamp, BurstWindowMs))
                  >= CeilSeventy(Len(accSorted))
            /\ accSpan > BurstWindowMs * 3
         THEN TRUE
         ELSE DormantAnchors(accSorted, accSpan, i + 1)

RECURSIVE DormantAccounts(_, _, _)
DormantAccounts(accountTxs, k, suspicious) ==
    IF k > Len(accountTxs) THEN suspicious
    ELSE LET txs == accountTxs[k].val
             accSorted == SortByTime(txs)
             accSpan == accSorted[Len(accSorted)].timestamp - accSorted[1].timestamp
         IN  DormantAccounts(accountTxs, k + 1,
                 IF Len(txs) >= 4 /\ DormantAnchors(accSorted, accSpan, 1)
                 THEN AddPattern(suspicious, accountTxs[k].key, "dormant_activation")
                 ELSE suspicious)

detectDormantActivation(txs) ==
    LET sorted == SortByTime(txs)
    IN  IF Len(sorted) = 0 THEN <<>>
        ELSE IF sorted[Len(sorted)].timestamp - sorted[1].timestamp < DormantMinSpanMs
             THEN <<>>
             ELSE DormantAccounts(GroupByAccount(sorted, <<>>), 1, <<>>)

-----------------------------------------------------------------------------
(* calcSuspicionScore *)

AllPatterns ==
    << "cycle_length_3", "cycle_length_4", "cycle_length_5", "fan_in", "fan_out",
       "smurfing_source", "layered_shell", "low_activity_intermediary",
       "high_velocity", "structuring", "round_trip", "dormant_activation" >>

\* the weights with those of structuring and round_trip exchanged
PatternWeightSwapped(p) ==
    CASE p = "cycle_length_3"            -> 30
      [] p = "cycle_length_4"            -> 25
      [] p = "cycle_length_5"            -> 20
      [] p = "fan_in"                    -> 20
      [] p = "fan_out"                   -> 20
      [] p = "smurfing_source"           -> 10
      [] p = "layered_shell"             -> 25
      [] p = "low_activity_intermediary" -> 15
      [] p = "high_velocity"             -> 18
      [] p = "structuring"               -> 20
      [] p = "round_trip"                -> 22
      [] p = "dormant_activation"        -> 15

\* `if (patterns.includes(p)) score += w`, one line of the source per label
PatternWeight(p) ==
    CASE p = "cycle_length_3"            -> 30
      [] p = "cycle_length_4"            -> 25
      [] p = "cycle_length_5"            -> 20
      [] p = "fan_in"                    -> 20
      [] p = "fan_out"                   -> 20
      [] p = "smurfing_source"           -> 10
      [] p = "layered_shell"             -> 25
      [] p = "low_activity_intermediary" -> 15
      [] p = "high_velocity"             -> 18
      [] p = "structuring"               -> 22
      [] p = "round_trip"                -> 20
      [] p = "dormant_activation"        -> 15

RECURSIVE PatternScoreFrom(_, _)
PatternScoreFrom(patterns, k) ==
    IF k > Len(AllPatterns) THEN 0
    ELSE (IF Includes(patterns, AllPatterns[k]) THEN PatternWeight(AllPatterns[k]) ELSE 0)
         + PatternScoreFrom(patterns, k + 1)

PatternScore(patterns) == PatternScoreFrom(patterns, 1)

\* `if (patternCount >= 3) score += 10; if (patternCount >= 5) score += 10`
MultiPatternBonus(patterns) ==
    (IF Len(patterns) >= 3 THEN 10 ELSE 0) + (IF Len(patterns) >= 5 THEN 10 ELSE 0)

\* Math.min(ringCount * 5, 15)
RingBonus(ringCount) == Min2(ringCount * 5, 15)

\* flowRatio > 0.6 && flowRatio < 0.95 && txCount >= 3, inside totalSent > 0 && totalReceived > 0
FlowBonus(txCount, totalSent, totalReceived) ==
    IF /\ totalSent > 0 /\ totalReceived > 0
       /\ 10 * Min2(totalSent, totalReceived) > 6 * Max2(totalSent, totalReceived)
       /\ 100 * Min2(totalSent, totalReceived) < 95 * Max2(totalSent, totalReceived)
       /\ txCount >= 3
    THEN 8 ELSE 0

\* the merchant test with the ratio taken over max(sent, received) alone
MerchantAppliesPlainRatio(txCount, totalSent, totalReceived) ==
    /\ txCount > 20
    /\ 10 * Min2(totalSent, totalReceived) > 3 * Max2(totalSent, totalReceived)

\* txCount > 20 and Math.min(sent, received) / Math.max(sent, received, 1) > 0.3
MerchantApplies(txCount, totalSent, totalReceived) ==
    /\ txCount > 20
    /\ 10 * Min2(totalSent, totalReceived) > 3 * Max2(Max2(totalSent, totalReceived), 100)

MerchantFilter(score, txCount, totalSent, totalReceived) ==
    IF MerchantApplies(txCount, totalSent, totalReceived) THEN Max2(score - 15, 0) ELSE score

\* totalReceived === 0 && txCount > 10
PayrollApplies(txCount, totalReceived) == totalReceived = 0 /\ txCount > 10

\* the payroll subtraction without its floor
PayrollFilterNoFloor(score, txCount, totalReceived) ==
    IF PayrollApplies(txCount, totalReceived) THEN score - 20 ELSE score

PayrollFilter(score, txCount, totalReceived) ==
    IF PayrollApplies(txCount, totalReceived) THEN Max2(score - 20, 0) ELSE score

\* the running total before the two filters
ScoreBeforeFilters(patterns, ringCount, txCount, totalSent, totalReceived) ==
    PatternScore(patterns) + MultiPatternBonus(patterns) + RingBonus(ringCount)
        + FlowBonus(txCount, totalSent, totalReceived)

\* the score with the cap at 100 applied before the two filters instead of after
calcSuspicionScoreCapFirst(accountId, patterns, ringCount, txCount, totalSent, totalReceived) ==
    LET s4 == Min2(ScoreBeforeFilters(patterns, ringCount, txCount, totalSent, totalReceived), 100)
        s5 == MerchantFilter(s4, txCount, totalSent, totalReceived)
    IN  PayrollFilter(s5, txCount, totalReceived)

calcSuspicionScore(accountId, patterns, ringCount, txCount, totalSent, totalReceived) ==
    LET s4 == ScoreBeforeFilters(patterns, ringCount, txCount, totalSent, totalReceived)
        s5 == MerchantFilter(s4, txCount, totalSent, totalReceived)
        s6 == PayrollFilter(s5, txCount, totalReceived)
    IN  Min2(s6, 100)

-----------------------------------------------------------------------------
(* analyzeTransactions: the aggregates, the ring aggregation, the assembly *)

\* the loop that fills allAccounts, txCounts, sentAmounts and recvAmounts
RECURSIVE Aggregate(_, _)
Aggregate(txs, ag) ==
    IF txs = <<>> THEN ag
    ELSE LET t  == Head(txs)
             c1 == MapSet(ag.txCounts, t.sender_id, MapGetOr(ag.txCounts, t.sender_id, 0) + 1)
             c2 == MapSet(c1, t.receiver_id, MapGetOr(c1, t.receiver_id, 0) + 1)
         IN  Aggregate(Tail(txs),
                 [allAccounts |-> ag.allAccounts \cup {t.sender_id, t.receiver_id},
                  txCounts    |-> c2,
                  sentAmounts |-> MapSet(ag.sentAmounts, t.sender_id,
                                     MapGetOr(ag.sentAmounts, t.sender_id, 0) + t.amount),
                  recvAmounts |-> MapSet(ag.recvAmounts, t.receiver_id,
                                     MapGetOr(ag.recvAmounts, t.receiver_id, 0) + t.amount)])

\* String.prototype.padStart(n, "0")
RECURSIVE PadStartZero(_, _)
PadStartZero(str, n) == IF Len(str) >= n THEN str ELSE PadStartZero("0" \o str, n)

\* `RING_${String(ringCounter).padStart(3, "0")}`
RingId(counter) == "RING_" \o PadStartZero(ToString(counter), 3)

\* `cycle_length_${cycle.length}`
CyclePatternName(cycle) == "cycle_length_" \o ToString(Len(cycle))

\* the ring id put in front of the account's list instead of behind it
JoinRingInFront(rings, acc, ringId) == MapSet(rings, acc, <<ringId>> \o MapGetOr(rings, acc, <<>>))

\* `const rings = accountRings.get(acc) || []; rings.push(ringId); accountRings.set(acc, rings)`
JoinRing(rings, acc, ringId) == MapSet(rings, acc, Append(MapGetOr(rings, acc, <<>>), ringId))

RECURSIVE JoinRingAll(_, _, _)
JoinRingAll(rings, accs, ringId) ==
    IF accs = <<>> THEN rings ELSE JoinRingAll(JoinRing(rings, Head(accs), ringId), Tail(accs), ringId)

\* one risk score for every cycle, whatever its length
CycleRiskFlat(cycle) == 85

\* Math.min(70 + cycle.length * 5, 100)
CycleRisk(cycle) == Min2(70 + Len(cycle) * 5, 100)

\* Math.min(75 + chain.length * 3, 100)
ShellRisk(chain) == Min2(75 + Len(chain) * 3, 100)

\* 1. the loop over the cycles; ag holds fraudRings, accountRings, accountPatterns, ringCounter
RECURSIVE AggregateCycles(_, _)
AggregateCycles(cs, ag) ==
    IF cs = <<>> THEN ag
    ELSE LET cycle   == Head(cs)
             counter == ag.ringCounter + 1
             ringId  == RingId(counter)
         IN  AggregateCycles(Tail(cs),
                 [fraudRings      |-> Append(ag.fraudRings,
                                         [ring_id |-> ringId, member_accounts |-> cycle,
                                          pattern_type |-> "cycle",
                                          risk_score |-> CycleRisk(cycle)]),
                  accountRings    |-> JoinRingAll(ag.accountRings, cycle, ringId),
                  accountPatterns |-> AddPatternAll(ag.accountPatterns, cycle,
                                                    CyclePatternName(cycle)),
                  ringCounter     |-> counter])

\* `for (const [acc, pats] of results) { existing = ...; for (const p of pats) ...; set }`
RECURSIVE MergePatterns(_, _)
MergePatterns(patterns, results) ==
    IF results = <<>> THEN patterns
    ELSE MergePatterns(
             MapSet(patterns, Head(results).key,
                    PushAllNew(MapGetOr(patterns, Head(results).key, <<>>), Head(results).val)),
             Tail(results))

\* `if (!accountRings.has(acc)) accountRings.set(acc, [])` for every key of results
RECURSIVE TrackInRings(_, _)
TrackInRings(rings, accs) ==
    IF accs = <<>> THEN rings
    ELSE TrackInRings(IF MapHas(rings, Head(accs)) THEN rings ELSE MapSet(rings, Head(accs), <<>>),
                      Tail(accs))

\* the smurfing ring made without advancing ringCounter
AggregateSmurfingSameCounter(results, ag) ==
    LET smurfingAccounts == MapKeys(results)
        ringId           == RingId(ag.ringCounter)
    IN  IF Len(smurfingAccounts) >= 2
        THEN [fraudRings      |-> Append(ag.fraudRings,
                                     [ring_id |-> ringId, member_accounts |-> smurfingAccounts,
                                      pattern_type |-> "smurfing", risk_score |-> 80]),
              accountRings    |-> JoinRingAll(ag.accountRings, smurfingAccounts, ringId),
              accountPatterns |-> MergePatterns(ag.accountPatterns, results),
              ringCounter     |-> ag.ringCounter]
        ELSE ag

\* the smurfing ring made only for three or more accounts
AggregateSmurfingFromThree(results, ag) ==
    LET smurfingAccounts == MapKeys(results)
        counter          == ag.ringCounter + 1
        ringId           == RingId(counter)
    IN  IF Len(smurfingAccounts) >= 3
        THEN [fraudRings      |-> Append(ag.fraudRings,
                                     [ring_id |-> ringId, member_accounts |-> smurfingAccounts,
                                      pattern_type |-> "smurfing", risk_score |-> 80]),
              accountRings    |-> JoinRingAll(ag.accountRings, smurfingAccounts, ringId),
              accountPatterns |-> MergePatterns(ag.accountPatterns, results),
              ringCounter     |-> counter]
        ELSE ag

\* 2. the smurfing ring
AggregateSmurfing(results, ag) ==
    LET smurfingAccounts == MapKeys(results)
        counter          == ag.ringCounter + 1
        ringId           == RingId(counter)
    IN  IF Len(smurfingAccounts) >= 2
        THEN [fraudRings      |-> Append(ag.fraudRings,
                                     [ring_id |-> ringId, member_accounts |-> smurfingAccounts,
                                      pattern_type |-> "smurfing", risk_score |-> 80]),
              accountRings    |-> JoinRingAll(ag.accountRings, smurfingAccounts, ringId),
              accountPatterns |-> MergePatterns(ag.accountPatterns, results),
              ringCounter     |-> counter]
        ELSE ag

\* the labels of a chain's members with the first member taken as interior
RECURSIVE ShellMembersFromFirst(_, _, _, _)
ShellMembersFromFirst(patterns, chain, k, counts) ==
    IF k > Len(chain) THEN patterns
    ELSE LET acc   == chain[k]
             pats1 == PushNew(MapGetOr(patterns, acc, <<>>), "layered_shell")
             count == MapGetOr(counts, acc, 0)
             pats2 == IF count <= 3 /\ IndexOf(chain, acc) < Len(chain) - 1
                      THEN PushNew(pats1, "low_activity_intermediary")
                      ELSE pats1
         IN  ShellMembersFromFirst(MapSet(patterns, acc, pats2), chain, k + 1, counts)

\* the labels one member of a chain receives
RECURSIVE ShellMembers(_, _, _, _)
ShellMembers(patterns, chain, k, counts) ==
    IF k > Len(chain) THEN patterns
    ELSE LET acc   == chain[k]
             pats1 == PushNew(MapGetOr(patterns, acc, <<>>), "layered_shell")
             count == MapGetOr(counts, acc, 0)
             pats2 == IF count <= 3 /\ IndexOf(chain, acc) > 0
                         /\ IndexOf(chain, acc) < Len(chain) - 1
                      THEN PushNew(pats1, "low_activity_intermediary")
                      ELSE pats1
         IN  ShellMembers(MapSet(patterns, acc, pats2), chain, k + 1, counts)

\* 3. the loop over the shell chains
RECURSIVE AggregateShells(_, _, _)
AggregateShells(chains, counts, ag) ==
    IF chains = <<>> THEN ag
    ELSE LET chain   == Head(chains)
             counter == ag.ringCounter + 1
             ringId  == RingId(counter)
         IN  AggregateShells(Tail(chains), counts,
                 [fraudRings      |-> Append(ag.fraudRings,
                                         [ring_id |-> ringId, member_accounts |-> chain,
                                          pattern_type |-> "layered_shell",
                                          risk_score |-> ShellRisk(chain)]),
                  accountRings    |-> JoinRingAll(ag.accountRings, chain, ringId),
                  accountPatterns |-> ShellMembers(ag.accountPatterns, chain, 1, counts),
                  ringCounter     |-> counter])

\* Math.round(score * 10) / 10, of a score that is a whole number
RoundOneDecimal(score) == (score * 10) \div 10

\* every scored account kept
RetainedAlways(score) == score >= 0

\* the retention threshold of the assembly, `if (score >= 15)`
Retained(score) == score >= 15

\* the loop over allFlaggedAccounts
RECURSIVE ScoreAccounts(_, _, _, _, _, _)
ScoreAccounts(flagged, rings, patterns, counts, sent, recv) ==
    IF flagged = <<>> THEN <<>>
    ELSE LET acc   == Head(flagged)
             rs    == MapGetOr(rings, acc, <<>>)
             ps    == MapGetOr(patterns, acc, <<>>)
             score == calcSuspicionScore(acc, ps, Len(rs), MapGetOr(counts, acc, 0),
                                         MapGetOr(sent, acc, 0), MapGetOr(recv, acc, 0))
             rest  == ScoreAccounts(Tail(flagged), rings, patterns, counts, sent, recv)
         IN  IF Len(ps) = 0 THEN rest
             ELSE IF Retained(score)
                  THEN << [account_id        |-> acc,
                           suspicion_score   |-> RoundOneDecimal(score),
                           detected_patterns |-> ps,
                           ring_id           |-> IF Len(rs) > 0 THEN rs[1] ELSE "STANDALONE"] >>
                       \o rest
                  ELSE rest

\* insertion in front of the elements of equal score
RECURSIVE InsertByScoreBeforeEqual(_, _)
InsertByScoreBeforeEqual(s, a) ==
    IF s = <<>> THEN <<a>>
    ELSE IF a.suspicion_score >= Head(s).suspicion_score THEN <<a>> \o s
         ELSE <<Head(s)>> \o InsertByScoreBeforeEqual(Tail(s), a)

\* insertion behind every element whose score is not lower (stable, descending)
RECURSIVE InsertByScore(_, _)
InsertByScore(s, a) ==
    IF s = <<>> THEN <<a>>
    ELSE IF a.suspicion_score > Head(s).suspicion_score THEN <<a>> \o s
         ELSE <<Head(s)>> \o InsertByScore(Tail(s), a)

\* suspiciousAccounts.sort((a, b) => b.suspicion_score - a.suspicion_score)
RECURSIVE SortByScoreFrom(_, _)
SortByScoreFrom(s, acc) ==
    IF s = <<>> THEN acc ELSE SortByScoreFrom(Tail(s), InsertByScore(acc, Head(s)))

SortByScore(s) == SortByScoreFrom(s, <<>>)

\* new Set([...accountRings.keys(), ...accountPatterns.keys()])
AllFlaggedAccounts(rings, patterns) == UniqueOf(MapKeys(rings) \o MapKeys(patterns))

\* Math.round((endTime - startTime) / 100) / 10, in tenths of a second
ProcessingTenths(elapsedMs) == (elapsedMs + 50) \div 100

\* the elapsed milliseconds performance.now() may measure
ElapsedChoices == {0, 50}

-----------------------------------------------------------------------------
(* Inputs *)

Minute == 60 * 1000
Hour == 60 * Minute

\* a row of the CSV file that parseCSV keeps; transaction_id n stands for the n-th id
Tx(id, sender, receiver, amount, timestamp) ==
    [transaction_id |-> id, sender_id |-> sender, receiver_id |-> receiver,
     amount |-> amount, timestamp |-> timestamp]

\* a 4-cycle, two more senders into A, and a second transfer from A to B
GraphPool ==
    { Tx(1, "A", "B", 100000, 1 * Hour), Tx(2, "B", "C", 100000, 2 * Hour),
      Tx(3, "C", "D", 100000, 3 * Hour), Tx(4, "D", "A", 100000, 4 * Hour),
      Tx(5, "X", "A", 100000, 5 * Hour), Tx(6, "Y", "A", 100000, 6 * Hour),
      Tx(7, "A", "B", 250000, 7 * Hour) }

\* accounts whose ids hold the separator of the de-duplication keys
CommaIdPool ==
    { Tx(1, "A", "B", 100000, 1 * Hour), Tx(2, "B", "C", 100000, 2 * Hour),
      Tx(3, "C", "D", 100000, 3 * Hour), Tx(4, "D", "A", 100000, 4 * Hour),
      Tx(5, "A,B", "C", 100000, 5 * Hour), Tx(6, "D", "A,B", 100000, 6 * Hour) }

\* transfers into R around the edges of the 72 hour window
SmurfPool ==
    { Tx(1, "S1", "R", 45000, 0),          Tx(2, "S2", "R", 45000, 36 * Hour),
      Tx(3, "S3", "R", 45000, 72 * Hour),  Tx(4, "S4", "R", 45000, 72 * Hour + 1),
      Tx(5, "S5", "R", 45000, 1 * Hour),   Tx(6, "S1", "R", 45000, 73 * Hour),
      Tx(7, "S4", "R", 45000, 2 * Hour) }

\* transfers out of X around the edges of the 30 minute window, and one into X
VelocityPool ==
    { Tx(1, "X", "A", 20000, 0),            Tx(2, "X", "B", 20000, 10 * Minute),
      Tx(3, "X", "C", 20000, 20 * Minute),  Tx(4, "X", "A", 20000, 25 * Minute),
      Tx(5, "X", "B", 20000, 30 * Minute),  Tx(6, "X", "C", 20000, 30 * Minute + 1),
      Tx(7, "Y", "X", 20000, 5 * Minute) }

\* the k-th row of a file of transfers out of X, one an hour, the first three just
\* below the 3000 threshold
BulkRow(k) ==
    Tx(k, "X", IF k % 2 = 1 THEN "Y" ELSE "Z", IF k <= 3 THEN 260000 ELSE 10000, k * Hour)

BulkPool == { BulkRow(k) : k \in 1..MaxBulkTx }

\* transfers out of X and Y on and around the edges of the margin bands below
\* the thresholds, and one transfer into X
StructuringPool ==
    { Tx(1, "X", "A", 950000, 1 * Hour),  Tx(2, "X", "B", 999999, 2 * Hour),
      Tx(3, "X", "A", 1000000, 3 * Hour), Tx(4, "X", "B", 449999, 4 * Hour),
      Tx(5, "X", "C", 250000, 5 * Hour),  Tx(6, "Y", "X", 260000, 6 * Hour),
      Tx(7, "Y", "A", 299999, 7 * Hour) }

\* transfers between P and Q on and around the edges of the 7 day window and of
\* the 85% amount ratio, a transfer without a return, and a transfer of P to itself
RoundTripPool ==
    { Tx(1, "P", "Q", 100000, 0),
      Tx(2, "Q", "P", 85000, 7 * 24 * Hour),
      Tx(3, "Q", "P", 84999, 1 * Hour),
      Tx(4, "Q", "P", 100000, 7 * 24 * Hour + 1),
      Tx(5, "R", "P", 100000, 1 * Hour),
      Tx(6, "P", "Q", 100000, 8 * 24 * Hour),
      Tx(7, "S1", "S1", 50000, 2 * Hour) }

\* a sender whose id holds the arrow of the pair keys
ArrowIdPool ==
    { Tx(1, "A->B", "C", 100000, 1 * Hour), Tx(2, "B", "A", 100000, 2 * Hour),
      Tx(3, "A", "C", 100000, 3 * Hour),    Tx(4, "C", "A", 50000, 4 * Hour),
      Tx(5, "C", "B", 100000, 5 * Hour),    Tx(6, "B", "C", 100000, 6 * Hour),
      Tx(7, "D", "A->B", 100000, 7 * Hour) }

\* transactions of X inside and around a 48 hour burst, a late one that makes
\* X's own span 144 hours and one that makes it 7 days, a transfer between
\* other accounts 7 days after the first, and a transfer of X to itself
DormantPool ==
    { Tx(1, "X", "A", 20000, 0),
      Tx(2, "X", "B", 20000, 1 * Hour),
      Tx(3, "X", "C", 20000, 48 * Hour),
      Tx(4, "X", "B", 20000, 48 * Hour + 1),
      Tx(5, "X", "A", 20000, 144 * Hour),
      Tx(6, "D", "X", 20000, 168 * Hour),
      Tx(7, "E", "F", 20000, 168 * Hour),
      Tx(8, "X", "X", 20000, 2 * Hour) }

\* the k-th row of a file with the chain X -> A -> B -> C and, from the fourth
\* row on, transfers out of X to Z, one an hour
ShellPayerRow(k) ==
    CASE k = 1 -> Tx(1, "A", "B", 10000, 1 * Hour)
      [] k = 2 -> Tx(2, "B", "C", 10000, 2 * Hour)
      [] k = 3 -> Tx(3, "X", "A", 10000, 3 * Hour)
      [] OTHER -> Tx(k, "X", "Z", 10000, k * Hour)

ShellPayerPool == { ShellPayerRow(k) : k \in 1..MaxRingTx }

\* three transfers of X just below thresholds, and transfers of P and Q that
\* pay each other back
EncounterPool ==
    { Tx(1, "X", "A", 950000, 1 * Hour),  Tx(2, "X", "B", 999999, 2 * Hour),
      Tx(3, "X", "C", 250000, 3 * Hour),  Tx(4, "P", "Q", 100000, 4 * Hour),
      Tx(5, "Q", "P", 100000, 5 * Hour),  Tx(6, "X", "A", 260000, 6 * Hour),
      Tx(7, "Q", "P", 90000, 7 * Hour) }

\* two 3-cycles through A and B, and a pair of accounts that pay each other back
MixedPool ==
    { Tx(1, "A", "B", 100000, 1 * Hour), Tx(2, "B", "C", 100000, 2 * Hour),
      Tx(3, "C", "A", 100000, 3 * Hour), Tx(4, "B", "D", 100000, 4 * Hour),
      Tx(5, "D", "A", 100000, 5 * Hour), Tx(6, "P", "Q", 100000, 6 * Hour),
      Tx(7, "Q", "P", 90000, 7 * Hour) }

\* cycles of 3, 4 and 5 accounts that share the edges A -> B -> C
CyclePool ==
    { Tx(1, "A", "B", 100000, 1 * Hour), Tx(2, "B", "C", 100000, 2 * Hour),
      Tx(3, "C", "A", 100000, 3 * Hour), Tx(4, "C", "D", 100000, 4 * Hour),
      Tx(5, "D", "A", 100000, 5 * Hour), Tx(6, "D", "E", 100000, 6 * Hour),
      Tx(7, "E", "A", 100000, 7 * Hour) }

\* two senders that each pay three receivers, the first with its third transfer on
\* the last millisecond of the 72 hour window, and a third sender into A
FanOutPool ==
    { Tx(1, "X", "A", 45000, 0),         Tx(2, "X", "B", 45000, 1 * Hour),
      Tx(3, "X", "C", 45000, 72 * Hour), Tx(4, "Y", "A", 45000, 2 * Hour),
      Tx(5, "Y", "B", 45000, 3 * Hour),  Tx(6, "Y", "C", 45000, 4 * Hour),
      Tx(7, "Z", "A", 45000, 5 * Hour) }

\* rows of generateSampleCSV among its normal accounts; the generator numbers
\* its rows upwards and writes the normal rows first
NormalPool ==
    { Tx(1, "ACC_00001", "ACC_00002", 120000, 10 * Hour),
      Tx(2, "ACC_00002", "ACC_00003", 510000, 100 * Hour),
      Tx(3, "ACC_00003", "ACC_00001", 10000, 167 * Hour),
      Tx(4, "ACC_00001", "ACC_00003", 300000, 30 * Hour) }

\* the times Math.random() can give the first and the last smurfing source
\* (0 to 48 hours, cut to whole seconds) and the first fan-out (50 to 60 hours)
SourceTimeChoices == { 0, 48 * Hour - 1000 }
TargetTimeChoices == { 50 * Hour, 60 * Hour - 1000 }

\* the rows of the cycle, the smurfing fan-in and fan-out and the layered shell
\* that generateSampleCSV writes after its 80 normal rows
SamplePatternRows(first, last, target) ==
    << Tx(81, "ACC_00101", "ACC_00102", 225000, 0),
       Tx(82, "ACC_00102", "ACC_00103", 225000, 1 * Hour),
       Tx(83, "ACC_00103", "ACC_00101", 225000, 2 * Hour),
       Tx(84, "ACC_00201", "ACC_00200", 47500, first),
       Tx(85, "ACC_00202", "ACC_00200", 47500, 24 * Hour),
       Tx(86, "ACC_00203", "ACC_00200", 47500, 12 * Hour),
       Tx(87, "ACC_00204", "ACC_00200", 47500, 36 * Hour),
       Tx(88, "ACC_00205", "ACC_00200", 47500, last),
       Tx(89, "ACC_00200", "ACC_00210", 75000, target),
       Tx(90, "ACC_00200", "ACC_00211", 75000, 55 * Hour),
       Tx(91, "ACC_00200", "ACC_00212", 75000, 52 * Hour),
       Tx(92, "ACC_00301", "ACC_00302", 350000, 2 * Hour),
       Tx(93, "ACC_00302", "ACC_00303", 350000, 4 * Hour),
       Tx(94, "ACC_00303", "ACC_00304", 350000, 6 * Hour) >>

TransactionIds(txs) == { txs[i].transaction_id : i \in 1..Len(txs) }

\* the arguments of a direct call of calcSuspicionScore
PatternLists ==
    { SelectSeq(AllPatterns, LAMBDA p : p \in S) :
        S \in { T \in SUBSET Range(AllPatterns) : Cardinality(T) <= MaxPatterns } }

TxCountChoices == {2, 3, 10, 11, 20, 21}

RingCountChoices == {0, 1, 3, 4}

\* <<totalSent, totalReceived>> in cents
FlowChoices ==
    { <<0, 0>>, <<500000, 0>>, <<0, 500000>>, <<50, 40>>, <<50, 20>>,
      <<1000000, 300000>>, <<1000000, 310000>>, <<1000000, 600000>>,
      <<700000, 1000000>>, <<1000000, 950000>>, <<1000000, 1000000>> }

-----------------------------------------------------------------------------
(* The state machine *)

\* no call has returned yet; no path search is in progress
NoCall == [call |-> "none"]
NoSearch == [kind |-> "none"]

NoRun ==
    /\ adj = <<>> /\ allAccounts = {} /\ txCounts = <<>>
    /\ sentAmounts = <<>> /\ recvAmounts = <<>>
    /\ fraudRings = <<>> /\ accountRings = <<>> /\ accountPatterns = <<>>
    /\ ringCounter = 0
    /\ cycles = <<>> /\ smurfingResults = <<>> /\ shells = <<>>
    /\ velocityResults = <<>> /\ structuringResults = <<>>
    /\ roundTripResults = <<>> /\ dormantResults = <<>>
    /\ result = "null"

Init ==
    /\ transactions = <<>>
    /\ pc = "input"
    /\ NoRun
    /\ scoreArgs = "none"
    /\ scoreResult = "none"
    /\ previous = NoCall
    /\ search = NoSearch

runVars == <<adj, allAccounts, txCounts, sentAmounts, recvAmounts, fraudRings,
             accountRings, accountPatterns, ringCounter, cycles, smurfingResults,
             shells, velocityResults, structuringResults, roundTripResults,
             dormantResults, result>>
scoreVars == <<scoreArgs, scoreResult>>
\* what a run of analyzeTransactions cannot reach
outerVars == <<scoreVars, previous, search>>

\* parseCSV keeps one more valid row
ParseRow(t, maxLen) ==
    /\ pc = "input"
    /\ Len(transactions) < maxLen
    /\ t.transaction_id \notin TransactionIds(transactions)
    /\ t.sender_id # "" /\ t.receiver_id # "" /\ t.amount > 0
    /\ transactions' = Append(transactions, t)
    /\ UNCHANGED <<pc, runVars, outerVars>>

\* parseCSV keeps one more valid row of a file whose rows are numbered upwards
ParseNextRow(t, maxLen) ==
    /\ \A id \in TransactionIds(transactions) : id < t.transaction_id
    /\ ParseRow(t, maxLen)

\* analyzeTransactions with a ringCounter that outlives the call
StartAnalysisKeepsCounter ==
    /\ pc = "input"
    /\ LET ag == Aggregate(transactions,
                     [allAccounts |-> {}, txCounts |-> <<>>,
                      sentAmounts |-> <<>>, recvAmounts |-> <<>>])
       IN  /\ adj' = buildAdjacencyList(transactions)
           /\ allAccounts' = ag.allAccounts
           /\ txCounts' = ag.txCounts
           /\ sentAmounts' = ag.sentAmounts
           /\ recvAmounts' = ag.recvAmounts
    /\ fraudRings' = <<>> /\ accountRings' = <<>> /\ accountPatterns' = <<>>
    /\ UNCHANGED <<ringCounter>>
    /\ pc' = "cycles"
    /\ UNCHANGED <<transactions, cycles, smurfingResults, shells, velocityResults,
                   structuringResults, roundTripResults, dormantResults, result, outerVars>>

\* analyzeTransactions, from its entry to the declaration of ringCounter
StartAnalysis ==
    /\ pc = "input"
    /\ LET ag == Aggregate(transactions,
                     [allAccounts |-> {}, txCounts |-> <<>>,
                      sentAmounts |-> <<>>, recvAmounts |-> <<>>])
       IN  /\ adj' = buildAdjacencyList(transactions)
           /\ allAccounts' = ag.allAccounts
           /\ txCounts' = ag.txCounts
           /\ sentAmounts' = ag.sentAmounts
           /\ recvAmounts' = ag.recvAmounts
    /\ fraudRings' = <<>> /\ accountRings' = <<>> /\ accountPatterns' = <<>>
    /\ ringCounter' = 0
    /\ pc' = "cycles"
    /\ UNCHANGED <<transactions, cycles, smurfingResults, shells, velocityResults,
                   structuringResults, roundTripResults, dormantResults, result, outerVars>>

Aggregation == [fraudRings |-> fraudRings, accountRings |-> accountRings,
                accountPatterns |-> accountPatterns, ringCounter |-> ringCounter]

SetAggregation(ag) ==
    /\ fraudRings' = ag.fraudRings
    /\ accountRings' = ag.accountRings
    /\ accountPatterns' = ag.accountPatterns
    /\ ringCounter' = ag.ringCounter

\* 1. Cycle detection
CycleStep ==
    /\ pc = "cycles"
    /\ cycles' = detectCycles(adj)
    /\ SetAggregation(AggregateCycles(cycles', Aggregation))
    /\ pc' = "smurfing"
    /\ UNCHANGED <<transactions, adj, allAccounts, txCounts, sentAmounts, recvAmounts,
                   smurfingResults, shells, velocityResults, structuringResults,
                   roundTripResults, dormantResults, result, outerVars>>

\* 2. Smurfing detection
SmurfingStep ==
    /\ pc = "smurfing"
    /\ smurfingResults' = detectSmurfing(transactions)
    /\ SetAggregation(AggregateSmurfing(smurfingResults', Aggregation))
    /\ pc' = "shells"
    /\ UNCHANGED <<transactions, adj, allAccounts, txCounts, sentAmounts, recvAmounts,
                   cycles, shells, velocityResults, structuringResults,
                   roundTripResults, dormantResults, result, outerVars>>

\* 3. Layered shell detection
ShellStep ==
    /\ pc = "shells"
    /\ shells' = detectLayeredShells(adj, txCounts)
    /\ SetAggregation(AggregateShells(shells', txCounts, Aggregation))
    /\ pc' = "velocity"
    /\ UNCHANGED <<transactions, adj, allAccounts, txCounts, sentAmounts, recvAmounts,
                   cycles, smurfingResults, velocityResults, structuringResults,
                   roundTripResults, dormantResults, result, outerVars>>

\* 4. High-velocity detection
VelocityStep ==
    /\ pc = "velocity"
    /\ velocityResults' = detectHighVelocity(transactions)
    /\ accountPatterns' = MergePatterns(accountPatterns, velocityResults')
    /\ pc' = "structuring"
    /\ UNCHANGED <<transactions, adj, allAccounts, txCounts, sentAmounts, recvAmounts,
                   fraudRings, accountRings, ringCounter, cycles, smurfingResults, shells,
                   structuringResults, roundTripResults, dormantResults, result, outerVars>>

\* 5. Structuring detection
StructuringStep ==
    /\ pc = "structuring"
    /\ structuringResults' = detectStructuring(transactions)
    /\ accountPatterns' = MergePatterns(accountPatterns, structuringResults')
    /\ pc' = "roundtrip"
    /\ UNCHANGED <<transactions, adj, allAccounts, txCounts, sentAmounts, recvAmounts,
                   fraudRings, accountRings, ringCounter, cycles, smurfingResults, shells,
                   velocityResults, roundTripResults, dormantResults, result, outerVars>>

\* 6. Round-trip detection
RoundTripStep ==
    /\ pc = "roundtrip"
    /\ roundTripResults' = detectRoundTrips(transactions)
    /\ accountPatterns' = MergePatterns(accountPatterns, roundTripResults')
    /\ accountRings' = TrackInRings(accountRings, MapKeys(roundTripResults'))
    /\ pc' = "dormant"
    /\ UNCHANGED <<transactions, adj, allAccounts, txCounts, sentAmounts, recvAmounts,
                   fraudRings, ringCounter, cycles, smurfingResults, shells,
                   velocityResults, structuringResults, dormantResults, result, outerVars>>

\* step 7 with a detector that reads sorted[sorted.length - 1].timestamp without
\* the test for an empty list: the read of a property of undefined throws
DormantStepUnguarded ==
    /\ pc = "dormant"
    /\ IF Len(SortByTime(transactions)) = 0
       THEN /\ pc' = "error"
            /\ UNCHANGED <<dormantResults, accountPatterns, accountRings>>
       ELSE /\ dormantResults' = detectDormantActivation(transactions)
            /\ accountPatterns' = MergePatterns(accountPatterns, dormantResults')
            /\ accountRings' = TrackInRings(accountRings, MapKeys(dormantResults'))
            /\ pc' = "assemble"
    /\ UNCHANGED <<transactions, adj, allAccounts, txCounts, sentAmounts, recvAmounts,
                   fraudRings, ringCounter, cycles, smurfingResults, shells,
                   velocityResults, structuringResults, roundTripResults, result, outerVars>>

\* 7. Dormant activation detection
DormantStep ==
    /\ pc = "dormant"
    /\ dormantResults' = detectDormantActivation(transactions)
    /\ accountPatterns' = MergePatterns(accountPatterns, dormantResults')
    /\ accountRings' = TrackInRings(accountRings, MapKeys(dormantResults'))
    /\ pc' = "assemble"
    /\ UNCHANGED <<transactions, adj, allAccounts, txCounts, sentAmounts, recvAmounts,
                   fraudRings, ringCounter, cycles, smurfingResults, shells,
                   velocityResults, structuringResults, roundTripResults, result, outerVars>>

\* the list of suspicious accounts, its sort, and the returned record
Assemble ==
    /\ pc = "assemble"
    /\ \E elapsedMs \in ElapsedChoices :
         LET suspiciousAccounts ==
                 SortByScore(ScoreAccounts(AllFlaggedAccounts(accountRings, accountPatterns),
                                           accountRings, accountPatterns,
                                           txCounts, sentAmounts, recvAmounts))
         IN  result' =
                 [suspicious_accounts |-> suspiciousAccounts,
                  fraud_rings         |-> fraudRings,
                  summary |->
                      [total_accounts_analyzed     |-> Cardinality(allAccounts),
                       suspicious_accounts_flagged |-> Len(suspiciousAccounts),
                       fraud_rings_detected        |-> Len(fraudRings),
                       processing_time_tenths      |-> ProcessingTenths(elapsedMs)]]
    /\ pc' = "done"
    /\ UNCHANGED <<transactions, adj, allAccounts, txCounts, sentAmounts, recvAmounts,
                   fraudRings, accountRings, accountPatterns, ringCounter, cycles,
                   smurfingResults, shells, velocityResults, structuringResults,
                   roundTripResults, dormantResults, outerVars>>

\* the page's "New Analysis" button
NewAnalysis ==
    /\ pc = "done"
    /\ transactions' = <<>>
    /\ pc' = "input"
    /\ adj' = <<>> /\ allAccounts' = {} /\ txCounts' = <<>>
    /\ sentAmounts' = <<>> /\ recvAmounts' = <<>>
    /\ fraudRings' = <<>> /\ accountRings' = <<>> /\ accountPatterns' = <<>>
    /\ ringCounter' = 0
    /\ cycles' = <<>> /\ smurfingResults' = <<>> /\ shells' = <<>>
    /\ velocityResults' = <<>> /\ structuringResults' = <<>>
    /\ roundTripResults' = <<>> /\ dormantResults' = <<>>
    /\ result' = "null"
    /\ UNCHANGED outerVars

Analyze ==
    \/ StartAnalysis
    \/ CycleStep
    \/ SmurfingStep
    \/ ShellStep
    \/ VelocityStep
    \/ StructuringStep
    \/ RoundTripStep
    \/ DormantStep
    \/ Assemble
    \/ NewAnalysis

ParseGraphRow == \E t \in GraphPool : ParseRow(t, MaxGraphTx)
Next == ParseGraphRow \/ Analyze
Spec == Init /\ [][Next]_vars

ParseCommaIdRow == \E t \in CommaIdPool : ParseRow(t, MaxGraphTx)
NextCommaIds == ParseCommaIdRow \/ Analyze
SpecCommaIds == Init /\ [][NextCommaIds]_vars

ParseSmurfRow == \E t \in SmurfPool : ParseRow(t, MaxTx)
NextSmurf == ParseSmurfRow \/ Analyze
SpecSmurf == Init /\ [][NextSmurf]_vars

ParseVelocityRow == \E t \in VelocityPool : ParseRow(t, MaxTx)
NextVelocity == ParseVelocityRow \/ Analyze
SpecVelocity == Init /\ [][NextVelocity]_vars

ParseBulkRow == \E t \in BulkPool : ParseNextRow(t, MaxBulkTx)
NextBulk == ParseBulkRow \/ Analyze
SpecBulk == Init /\ [][NextBulk]_vars

\* the caller keeps the returned result and hands the same list to
\* analyzeTransactions once more; the locals of the finished call are garbage
AnalyzeAgain ==
    /\ pc = "done"
    /\ previous' = [call |-> "analyzeTransactions", input |-> transactions, result |-> result]
    /\ pc' = "input"
    /\ UNCHANGED <<transactions, runVars, scoreVars, search>>

\* the list with the transactions at k and k + 1 exchanged
SwapAt(txs, k) ==
    [i \in 1..Len(txs) |-> IF i = k THEN txs[k + 1] ELSE IF i = k + 1 THEN txs[k] ELSE txs[i]]

\* the caller keeps the returned result and hands analyzeTransactions the same
\* transactions once more, two neighbours of the list exchanged
AnalyzeSwapped ==
    /\ pc = "done"
    /\ previous = NoCall
    /\ \E k \in 1..(Len(transactions) - 1) : transactions' = SwapAt(transactions, k)
    /\ previous' = [call |-> "analyzeTransactions", input |-> transactions, result |-> result]
    /\ pc' = "input"
    /\ UNCHANGED <<runVars, scoreVars, search>>

\* detectCycles and detectLayeredShells taken one iteration of their loops at a
\* time; search holds the locals of the detector that is running

\* detectCycles is entered: lines 17-19
BeginCycleSearch ==
    /\ pc = "cycles" /\ search.kind = "none"
    /\ search' = [kind |-> "cycles", nodes |-> MapKeys(adj), start |-> "",
                  st |-> [stack |-> <<>>, seen |-> {}, cycles |-> <<>>]]
    /\ UNCHANGED <<transactions, pc, runVars, scoreVars, previous>>

\* detectLayeredShells is entered: lines 107-109
BeginShellSearch ==
    /\ pc = "shells" /\ search.kind = "none"
    /\ search' = [kind |-> "shells", nodes |-> MapKeys(adj), start |-> "",
                  st |-> [stack |-> <<>>, seen |-> {}, chains |-> <<>>]]
    /\ UNCHANGED <<transactions, pc, runVars, scoreVars, previous>>

\* `for (const start of nodes)`: the stack is empty, the next start is pushed
NextSearchStart ==
    /\ search.kind \in {"cycles", "shells"}
    /\ search.st.stack = <<>> /\ search.nodes # <<>>
    /\ search' = [search EXCEPT
                     !.start = Head(search.nodes),
                     !.nodes = Tail(search.nodes),
                     !.st.stack = << [node |-> Head(search.nodes),
                                      path |-> <<Head(search.nodes)>>] >>]
    /\ UNCHANGED <<transactions, pc, runVars, scoreVars, previous>>

\* one iteration of the while loop of detectCycles
VisitCycleNode ==
    /\ search.kind = "cycles" /\ search.st.stack # <<>>
    /\ search' = [search EXCEPT !.st = CycleVisit(adj, search.start, 5, search.st)]
    /\ UNCHANGED <<transactions, pc, runVars, scoreVars, previous>>

\* one iteration of the while loop of detectLayeredShells
VisitShellNode ==
    /\ search.kind = "shells" /\ search.st.stack # <<>>
    /\ search' = [search EXCEPT !.st = ShellVisit(adj, txCounts, search.st)]
    /\ UNCHANGED <<transactions, pc, runVars, scoreVars, previous>>

\* detectCycles returns, and the loop over its cycles makes the rings
EndCycleSearch ==
    /\ search.kind = "cycles"
    /\ search.st.stack = <<>> /\ search.nodes = <<>>
    /\ cycles' = search.st.cycles
    /\ SetAggregation(AggregateCycles(cycles', Aggregation))
    /\ pc' = "smurfing"
    /\ search' = NoSearch
    /\ UNCHANGED <<transactions, adj, allAccounts, txCounts, sentAmounts, recvAmounts,
                   smurfingResults, shells, velocityResults, structuringResults,
                   roundTripResults, dormantResults, result, scoreVars, previous>>

\* detectLayeredShells returns, and the loop over its chains makes the rings
EndShellSearch ==
    /\ search.kind = "shells"
    /\ search.st.stack = <<>> /\ search.nodes = <<>>
    /\ shells' = search.st.chains
    /\ SetAggregation(AggregateShells(shells', txCounts, Aggregation))
    /\ pc' = "velocity"
    /\ search' = NoSearch
    /\ UNCHANGED <<transactions, adj, allAccounts, txCounts, sentAmounts, recvAmounts,
                   cycles, smurfingResults, velocityResults, structuringResults,
                   roundTripResults, dormantResults, result, scoreVars, previous>>

\* a call of analyzeTransactions runs to its return without interruption
RunOn ==
    \/ BeginCycleSearch \/ NextSearchStart \/ VisitCycleNode \/ EndCycleSearch
    \/ SmurfingStep
    \/ BeginShellSearch \/ VisitShellNode \/ EndShellSearch
    \/ VelocityStep \/ StructuringStep \/ RoundTripStep \/ DormantStep \/ Assemble

\* a chain X..F that runs through the cycle A, B, C: the searches meet an
\* account already on the path (C -> A) and a path at its full length
SearchPool ==
    { Tx(1, "X", "A", 100000, 1 * Hour), Tx(2, "A", "B", 100000, 2 * Hour),
      Tx(3, "B", "C", 100000, 3 * Hour), Tx(4, "C", "A", 100000, 4 * Hour),
      Tx(5, "C", "D", 100000, 5 * Hour), Tx(6, "D", "E", 100000, 6 * Hour),
      Tx(7, "E", "F", 100000, 7 * Hour) }

ParseSearchRow == \E t \in SearchPool : ParseNextRow(t, MaxTx)
NextSearch == ParseSearchRow \/ StartAnalysis \/ RunOn \/ NewAnalysis
\* a run that has started and not yet returned: the states where RunOn can step
Running == pc \in {"cycles", "smurfing", "shells", "velocity", "structuring",
                   "roundtrip", "dormant", "assemble"}

\* the single-threaded run-to-completion call: a started run is never left
\* waiting.  The second conjunct is weak fairness of RunOn with its enabling
\* condition written out as Running; the first is the same condition for the
\* steps of the two stack-driven searches.
SearchStep == NextSearchStart \/ VisitCycleNode \/ VisitShellNode
SpecSearch ==
    /\ Init /\ [][NextSearch]_vars
    /\ WF_vars(SearchStep)
    /\ ([]<>(~Running) \/ []<><<RunOn>>_vars)

ParseMixedRow == \E t \in MixedPool : ParseRow(t, MaxGraphTx)
NextMixed == ParseMixedRow \/ Analyze
SpecMixed == Init /\ [][NextMixed]_vars

\* parseCSV keeps one more row of a file with nested cycles
ParseCycleRow == \E t \in CyclePool : ParseNextRow(t, MaxCycleTx)
NextCycles == ParseCycleRow \/ Analyze
SpecCycles == Init /\ [][NextCycles]_vars

\* parseCSV keeps one more row of a file with amounts near the thresholds
ParseStructuringRow == \E t \in StructuringPool : ParseRow(t, MaxTx)
NextStructuring == ParseStructuringRow \/ Analyze
SpecStructuring == Init /\ [][NextStructuring]_vars

\* parseCSV keeps one more row of a file of transfers there and back
ParseRoundTripRow == \E t \in RoundTripPool : ParseRow(t, MaxTx)
NextRoundTrip == ParseRoundTripRow \/ Analyze
SpecRoundTrip == Init /\ [][NextRoundTrip]_vars

\* parseCSV keeps one more row of a file with an arrow in an account id
ParseArrowIdRow == \E t \in ArrowIdPool : ParseRow(t, MaxTx)
NextArrowIds == ParseArrowIdRow \/ Analyze
SpecArrowIds == Init /\ [][NextArrowIds]_vars

\* parseCSV keeps one more row of a file that spans 7 days
ParseDormantRow == \E t \in DormantPool : ParseRow(t, MaxTx)
NextDormant == ParseDormantRow \/ Analyze
SpecDormant == Init /\ [][NextDormant]_vars

\* parseCSV keeps one more row of the file with the shell chain
ParseShellPayerRow == \E t \in ShellPayerPool : ParseNextRow(t, MaxRingTx)
NextShellPayer == ParseShellPayerRow \/ Analyze
SpecShellPayer == Init /\ [][NextShellPayer]_vars

\* runs on a list and on the same list with two neighbours exchanged; the
\* second run is handed the list as it is
ParseFirstRunRow(pool) == previous = NoCall /\ \E t \in pool : ParseRow(t, MaxGraphTx)
ParseSwapCommaIdRow == ParseFirstRunRow(CommaIdPool)
NextSwapCommaIds == ParseSwapCommaIdRow \/ Analyze \/ AnalyzeSwapped
SpecSwapCommaIds == Init /\ [][NextSwapCommaIds]_vars

ParseSwapMixedRow == ParseFirstRunRow(MixedPool)
NextSwapMixed == ParseSwapMixedRow \/ Analyze \/ AnalyzeSwapped
SpecSwapMixed == Init /\ [][NextSwapMixed]_vars

\* parseCSV keeps one more row of a file with a structuring sender and a round trip
ParseEncounterRow == \E t \in EncounterPool : ParseRow(t, MaxTx)
NextEncounter == ParseEncounterRow \/ Analyze
SpecEncounter == Init /\ [][NextEncounter]_vars

ParseFanOutRow == \E t \in FanOutPool : ParseRow(t, MaxGraphTx)
NextFanOut == ParseFanOutRow \/ Analyze
SpecFanOut == Init /\ [][NextFanOut]_vars

\* parseCSV keeps one more of the sample's normal rows
ParseNormalRow ==
    /\ Len(transactions) < MaxNormalTx
    /\ \E t \in NormalPool : ParseNextRow(t, MaxNormalTx)

\* parseCSV keeps the rows of the sample's patterns
ParseSamplePatterns ==
    /\ pc = "input"
    /\ \A id \in TransactionIds(transactions) : id < 81
    /\ \E first, last \in SourceTimeChoices : \E target \in TargetTimeChoices :
          transactions' = transactions \o SamplePatternRows(first, last, target)
    /\ UNCHANGED <<pc, runVars, outerVars>>

NextSample == ParseNormalRow \/ ParseSamplePatterns \/ Analyze
SpecSample == Init /\ [][NextSample]_vars

\* a direct call of calcSuspicionScore
InitScore ==
    /\ transactions = <<>>
    /\ pc = "call"
    /\ NoRun
    /\ scoreArgs \in [patterns : PatternLists, ringCount : RingCountChoices,
                      txCount : TxCountChoices, flow : FlowChoices]
    /\ scoreResult = "none"
    /\ previous = NoCall
    /\ search = NoSearch

CallScore ==
    /\ pc = "call"
    /\ scoreResult' = calcSuspicionScore("X", scoreArgs.patterns, scoreArgs.ringCount,
                                         scoreArgs.txCount, scoreArgs.flow[1],
                                         scoreArgs.flow[2])
    /\ pc' = "returned"
    /\ UNCHANGED <<transactions, runVars, scoreArgs, previous, search>>

\* the caller keeps the returned score and calls calcSuspicionScore once more
\* with the same arguments
CallScoreAgain ==
    /\ pc = "returned"
    /\ previous' = [call |-> "calcSuspicionScore", input |-> scoreArgs, result |-> scoreResult]
    /\ scoreResult' = calcSuspicionScore("X", scoreArgs.patterns, scoreArgs.ringCount,
                                         scoreArgs.txCount, scoreArgs.flow[1],
                                         scoreArgs.flow[2])
    /\ pc' = "returned_again"
    /\ UNCHANGED <<transactions, runVars, scoreArgs, search>>

NextScore == CallScore
SpecScore == InitScore /\ [][NextScore]_vars

\* runs of analyzeTransactions and calls of calcSuspicionScore, each repeated
FewPatternLists == { p \in PatternLists : Len(p) <= 1 }

InitScoreFew ==
    /\ transactions = <<>>
    /\ pc = "call"
    /\ NoRun
    /\ scoreArgs \in [patterns : FewPatternLists, ringCount : RingCountChoices,
                      txCount : TxCountChoices, flow : FlowChoices]
    /\ scoreResult = "none"
    /\ previous = NoCall
    /\ search = NoSearch

InitRerun == Init \/ InitScoreFew
ParseRerunRow == \E t \in GraphPool : ParseNextRow(t, MaxTx)
NextRerun ==
    \/ ParseRerunRow
    \/ StartAnalysis \/ CycleStep \/ SmurfingStep \/ ShellStep \/ VelocityStep
    \/ StructuringStep \/ RoundTripStep \/ DormantStep \/ Assemble
    \/ AnalyzeAgain
    \/ CallScore \/ CallScoreAgain
SpecRerun == InitRerun /\ [][NextRerun]_vars

-----------------------------------------------------------------------------
(* What the claims speak of, stated on the transaction list itself *)

\* the run has passed the given step of analyzeTransactions
Started   == pc \in {"cycles", "smurfing", "shells", "velocity", "structuring",
                     "roundtrip", "dormant", "assemble", "done"}
CyclesDone   == Started /\ pc # "cycles"
SmurfingDone == CyclesDone /\ pc # "smurfing"
ShellsDone   == SmurfingDone /\ pc # "shells"
VelocityDone == ShellsDone /\ pc # "velocity"

Accounts == { transactions[i].sender_id : i \in 1..Len(transactions) }
            \cup { transactions[i].receiver_id : i \in 1..Len(transactions) }

Edge(a, b) ==
    \E i \in 1..Len(transactions) :
        transactions[i].sender_id = a /\ transactions[i].receiver_id = b

NoRepeat(s) == \A i, j \in 1..Len(s) : i # j => s[i] # s[j]

\* the simple directed paths of n accounts
RECURSIVE SimplePaths(_)
SimplePaths(n) ==
    IF n = 1 THEN { <<a>> : a \in Accounts }
    ELSE { Append(q[1], q[2]) :
             q \in { r \in SimplePaths(n - 1) \X Accounts :
                       Edge(r[1][Len(r[1])], r[2]) /\ r[2] \notin Range(r[1]) } }

\* the simple directed cycles of n accounts, as paths whose last account pays the first
SimpleCycles(n) == { p \in SimplePaths(n) : Edge(p[n], p[1]) }

\* the sets of 3 to 5 accounts that carry a simple directed cycle through all of them
CycleMemberSets == UNION { { Range(p) : p \in SimpleCycles(n) } : n \in 3..5 }

\* the number of transactions an account takes part in, a self-transfer counted twice
TxCountOf(a) ==
    Cardinality({ i \in 1..Len(transactions) : transactions[i].sender_id = a })
    + Cardinality({ i \in 1..Len(transactions) : transactions[i].receiver_id = a })

\* the paths the layered-shell detector is to report
ShellPaths ==
    UNION { { p \in SimplePaths(n) : \A i \in 2..(n - 1) : TxCountOf(p[i]) <= 3 } : n \in 4..6 }

RingsOfType(type) == SelectSeq(fraudRings, LAMBDA r : r.pattern_type = type)

-----------------------------------------------------------------------------
(* The claims *)

\* C1: detectCycles returns exactly one cycle for every set of 3 to 5 accounts
\* that carries a simple directed cycle through all of them: no two returned
\* cycles have the same member set, no such set is missing, and every returned
\* cycle is a sequence of 3 to 5 pairwise distinct accounts each of which has an
\* edge to the next, the last to the first.
C1_OneCyclePerMemberSet ==
    CyclesDone =>
        /\ \A i, j \in 1..Len(cycles) : i # j => Range(cycles[i]) # Range(cycles[j])
        /\ { Range(cycles[i]) : i \in 1..Len(cycles) } = CycleMemberSets
        /\ \A i \in 1..Len(cycles) :
              /\ Len(cycles[i]) \in 3..5
              /\ cycles[i] \in SimpleCycles(Len(cycles[i]))

\* C2: the adjacency structure holds the edge (A,B) if and only if some
\* transaction has sender A and receiver B, and no receiver is listed twice
\* for one sender.
C2_AdjacencyIffTransaction ==
    Started =>
        /\ NoRepeat(MapKeys(adj))
        /\ \A a, b \in Accounts :
              (MapHas(adj, a) /\ Includes(MapGet(adj, a), b)) <=> Edge(a, b)
        /\ \A k \in 1..Len(adj) :
              NoRepeat(adj[k].val) /\ Range(adj[k].val) \subseteq Accounts

\* a run whose list holds two transfers from one sender to one receiver
C2_Witness ==
    /\ Started
    /\ \E i, j \in 1..Len(transactions) :
          /\ i # j
          /\ transactions[i].sender_id = transactions[j].sender_id
          /\ transactions[i].receiver_id = transactions[j].receiver_id
    /\ Len(adj) >= 2

\* C4: the layered_shell rings are, one ring per path, the simple directed paths
\* of 4 to 6 accounts whose interior accounts take part in at most 3
\* transactions; each ring lists its path in order and carries the risk score
\* min(75 + 3 * length, 100).
C4_ShellRingPerPath ==
    ShellsDone =>
        LET rings == RingsOfType("layered_shell")
        IN  /\ \A i, j \in 1..Len(rings) :
                  i # j => rings[i].member_accounts # rings[j].member_accounts
            /\ { rings[i].member_accounts : i \in 1..Len(rings) } = ShellPaths
            /\ \A i \in 1..Len(rings) :
                  rings[i].risk_score =
                      Min2(75 + 3 * Len(rings[i].member_accounts), 100)

HasLabel(m, acc, label) == MapHas(m, acc) /\ Includes(MapGet(m, acc), label)

ReceivedBy(r) == { i \in 1..Len(transactions) : transactions[i].receiver_id = r }
SentBy(x) == { i \in 1..Len(transactions) : transactions[i].sender_id = x }

InWindow(i, anchor, windowMs) ==
    /\ transactions[i].timestamp >= transactions[anchor].timestamp
    /\ transactions[i].timestamp <= transactions[anchor].timestamp + windowMs

\* the senders of the transfers to r in the 72 hours that start at the anchor
SendersInWindow(r, anchor) ==
    { transactions[i].sender_id : i \in { j \in ReceivedBy(r) : InWindow(j, anchor, 72 * Hour) } }

FanInWindow(r, anchor) == anchor \in ReceivedBy(r) /\ Cardinality(SendersInWindow(r, anchor)) >= 3

\* all transfers to r lie within 72 hours of each other and come from 5 or more senders
FiveSendersWithinSpan(r) ==
    /\ Cardinality({ transactions[i].sender_id : i \in ReceivedBy(r) }) >= 5
    /\ \A i, j \in ReceivedBy(r) :
          transactions[j].timestamp - transactions[i].timestamp <= 72 * Hour

\* C3: a receiver is labeled fan_in if and only if one of the transfers it
\* received, taken as anchor, has transfers from 3 or more distinct senders in
\* the closed 72 hour window that starts at it; an account is labeled
\* smurfing_source if and only if it is a sender in such a window; so 5 senders
\* paying one receiver within a 72 hour span are all labeled, and so is the receiver.
C3_FanInIffQualifyingWindow ==
    SmurfingDone =>
        /\ \A a \in Accounts :
              /\ HasLabel(smurfingResults, a, "fan_in")
                    <=> \E i \in ReceivedBy(a) : FanInWindow(a, i)
              /\ HasLabel(smurfingResults, a, "smurfing_source")
                    <=> \E r \in Accounts : \E i \in ReceivedBy(r) :
                           FanInWindow(r, i) /\ a \in SendersInWindow(r, i)
        /\ \A r \in Accounts :
              FiveSendersWithinSpan(r) =>
                  /\ HasLabel(smurfingResults, r, "fan_in")
                  /\ \A i \in ReceivedBy(r) :
                        HasLabel(smurfingResults, transactions[i].sender_id, "smurfing_source")
        /\ MapKeys(smurfingResults) \in Seq(Accounts)

\* five senders have paid R within 72 hours and carry their labels
C3_Witness ==
    /\ SmurfingDone
    /\ FiveSendersWithinSpan("R")
    /\ HasLabel(smurfingResults, "R", "fan_in")
    /\ \A a \in {"S1", "S2", "S3", "S4", "S5"} : HasLabel(smurfingResults, a, "smurfing_source")

\* the outgoing transfers of x in the 30 minutes that start at the anchor
RapidFrom(x, anchor) == { j \in SentBy(x) : InWindow(j, anchor, 30 * Minute) }

ContractWeight ==
    [ cycle_length_3 |-> 30, cycle_length_4 |-> 25, cycle_length_5 |-> 20,
      fan_in |-> 20, fan_out |-> 20, smurfing_source |-> 10, layered_shell |-> 25,
      low_activity_intermediary |-> 15, high_velocity |-> 18, structuring |-> 22,
      round_trip |-> 20, dormant_activation |-> 15 ]

RECURSIVE SumOfWeights(_)
SumOfWeights(labels) ==
    IF labels = {} THEN 0
    ELSE LET l == CHOOSE x \in labels : TRUE
         IN  ContractWeight[l] + SumOfWeights(labels \ {l})

Returned == pc = "returned"
ArgSent == scoreArgs.flow[1]
ArgReceived == scoreArgs.flow[2]
ArgSmaller == Min2(ArgSent, ArgReceived)
ArgLarger == Max2(ArgSent, ArgReceived)

\* min/max of sent and received lies strictly between 0.6 and 0.95
PassThroughRatio == 100 * ArgSmaller > 60 * ArgLarger /\ 100 * ArgSmaller < 95 * ArgLarger

\* more than 20 transactions and min(sent, received) / max(sent, received, 1) above 0.3
MerchantCase ==
    /\ scoreArgs.txCount > 20
    /\ 10 * ArgSmaller > 3 * (IF ArgLarger > 100 THEN ArgLarger ELSE 100)

\* nothing received and more than 10 transactions
PayrollCase == ArgReceived = 0 /\ scoreArgs.txCount > 10

\* the running total of the call after all bonuses, before any suppression
RunningTotal ==
    ScoreBeforeFilters(scoreArgs.patterns, scoreArgs.ringCount, scoreArgs.txCount,
                       ArgSent, ArgReceived)

FlooredMinus(total, n) == IF total - n < 0 THEN 0 ELSE total - n

C7_MerchantSuppression ==
    Returned =>
        /\ MerchantCase => scoreResult = Min2(FlooredMinus(RunningTotal, 15), 100)
        /\ ~MerchantCase =>
              scoreResult =
                  Min2(IF PayrollCase THEN FlooredMinus(RunningTotal, 20) ELSE RunningTotal, 100)

\* a merchant whose amounts lie below one unit, and whose total is floored at 0
C7_Witness ==
    /\ Returned
    /\ MerchantCase
    /\ ArgLarger < 100
    /\ RunningTotal \in 1..14
    /\ scoreResult = 0

RECURSIVE SumAmounts(_)
SumAmounts(indices) ==
    IF indices = {} THEN 0
    ELSE LET i == CHOOSE x \in indices : TRUE
         IN  transactions[i].amount + SumAmounts(indices \ {i})

\* the rings of the run that list the account
RingsWith(a) == { k \in 1..Len(fraudRings) : a \in Range(fraudRings[k].member_accounts) }

\* the accounts that carry a label when the detectors have run
Labeled == { a \in Accounts : MapHas(accountPatterns, a) /\ Len(MapGet(accountPatterns, a)) >= 1 }

\* the final score of a labeled account
FinalScore(a) ==
    calcSuspicionScore(a, MapGet(accountPatterns, a), Cardinality(RingsWith(a)),
                       TxCountOf(a), SumAmounts(SentBy(a)), SumAmounts(ReceivedBy(a)))

ReportedIds ==
    [i \in 1..Len(result.suspicious_accounts) |-> result.suspicious_accounts[i].account_id]

PaddedRingId(k) ==
    "RING_" \o (IF k < 10 THEN "00" ELSE IF k < 100 THEN "0" ELSE "") \o ToString(k)

PatternTypeRank(type) ==
    CASE type = "cycle" -> 1 [] type = "smurfing" -> 2 [] type = "layered_shell" -> 3

RingsInOrder(rings) ==
    /\ \A k \in 1..Len(rings) : rings[k].ring_id = PaddedRingId(k)
    /\ \A j, k \in 1..Len(rings) : j # k => rings[j].ring_id # rings[k].ring_id
    /\ \A j, k \in 1..Len(rings) :
          j < k => PatternTypeRank(rings[j].pattern_type) <= PatternTypeRank(rings[k].pattern_type)
    /\ Cardinality({ k \in 1..Len(rings) : rings[k].pattern_type = "smurfing" }) <= 1

\* C10: the k-th ring carries the id "RING_" followed by k zero-padded to 3
\* digits, so the ids are unique and ascend along the list; the rings of type
\* cycle come before the smurfing ring, which comes before the rings of type
\* layered_shell.
C10_RingIdsFollowCreationOrder ==
    /\ Started => RingsInOrder(fraudRings) /\ ringCounter = Len(fraudRings)
    /\ pc = "done" => RingsInOrder(result.fraud_rings)

\* a result that holds a cycle ring, the smurfing ring and a layered_shell ring
C10_Witness ==
    /\ pc = "done"
    /\ \E i, j, k \in 1..Len(result.fraud_rings) :
          /\ result.fraud_rings[i].pattern_type = "cycle"
          /\ result.fraud_rings[j].pattern_type = "smurfing"
          /\ result.fraud_rings[k].pattern_type = "layered_shell"

\* the rings of the result that list the account, by their place in fraud_rings
ResultRingsWith(a) ==
    { k \in 1..Len(result.fraud_rings) : a \in Range(result.fraud_rings[k].member_accounts) }

SetMin(S) == CHOOSE x \in S : \A y \in S : x <= y

\* C11: for every reported account, ring_id is the id of the first ring of
\* fraud_rings that lists the account, and it is "STANDALONE" if and only if
\* no ring of fraud_rings lists the account.
C11_RingIdIsEarliestRing ==
    pc = "done" =>
        \A i \in 1..Len(result.suspicious_accounts) :
            LET e  == result.suspicious_accounts[i]
                rs == ResultRingsWith(e.account_id)
            IN  /\ (e.ring_id = "STANDALONE") <=> (rs = {})
                /\ rs # {} => e.ring_id = result.fraud_rings[SetMin(rs)].ring_id

\* one reported account lies in two rings and carries the id of the earlier,
\* another lies in none and carries the sentinel
C11_Witness ==
    /\ pc = "done"
    /\ \E i, j \in 1..Len(result.suspicious_accounts) :
          LET e == result.suspicious_accounts[i]
              f == result.suspicious_accounts[j]
          IN  /\ Cardinality(ResultRingsWith(e.account_id)) >= 2
              /\ e.ring_id = "RING_001"
              /\ ResultRingsWith(f.account_id) = {}
              /\ f.ring_id = "STANDALONE"

\* the place of an account in the iteration of
\* new Set([...accountRings.keys(), ...accountPatterns.keys()])
EncounterRank(a) ==
    IF MapHas(accountRings, a)
    THEN CHOOSE k \in 1..Len(accountRings) : accountRings[k].key = a
    ELSE Len(accountRings) + (CHOOSE k \in 1..Len(accountPatterns) : accountPatterns[k].key = a)

\* C12: along suspicious_accounts no score is higher than a score before it,
\* and two accounts of equal score stand in the order in which the assembly
\* loop met them.
C12_SortedDescendingStable ==
    pc = "done" =>
        \A i, j \in 1..Len(result.suspicious_accounts) :
            i < j =>
                LET e == result.suspicious_accounts[i]
                    f == result.suspicious_accounts[j]
                IN  /\ e.suspicion_score >= f.suspicion_score
                    /\ e.suspicion_score = f.suspicion_score
                          => EncounterRank(e.account_id) < EncounterRank(f.account_id)

\* a result with two accounts of equal score, in which the sort has moved an
\* account in front of one that the loop met earlier
C12_Witness ==
    /\ pc = "done"
    /\ \E i, j \in 1..Len(result.suspicious_accounts) :
          /\ i < j
          /\ result.suspicious_accounts[i].suspicion_score
                = result.suspicious_accounts[j].suspicion_score
    /\ \E i, j \in 1..Len(result.suspicious_accounts) :
          /\ i < j
          /\ EncounterRank(result.suspicious_accounts[i].account_id)
                > EncounterRank(result.suspicious_accounts[j].account_id)

\* the receivers of the transfers from x in the 72 hours that start at the anchor
ReceiversInWindow(x, anchor) ==
    { transactions[i].receiver_id : i \in { j \in SentBy(x) : InWindow(j, anchor, 72 * Hour) } }

FanOutWindow(x, anchor) ==
    anchor \in SentBy(x) /\ Cardinality(ReceiversInWindow(x, anchor)) >= 3

FanOutSender(x) == \E i \in SentBy(x) : FanOutWindow(x, i)

\* C13: whatever other accounts are flagged, a sender with 3 or more distinct
\* receivers among its outgoing transfers in the closed 72 hour window that
\* starts at one of them carries the label fan_out in the patterns that
\* analyzeTransactions accumulates for it, and is reported with that label.
C13_FanOutLabelReported ==
    /\ SmurfingDone =>
          \A x \in Accounts : FanOutSender(x) => HasLabel(accountPatterns, x, "fan_out")
    /\ pc = "done" =>
          \A x \in Accounts :
              FanOutSender(x) =>
                  \E i \in 1..Len(result.suspicious_accounts) :
                      /\ result.suspicious_accounts[i].account_id = x
                      /\ Includes(result.suspicious_accounts[i].detected_patterns, "fan_out")

\* the accounts that a qualifying fan-in or fan-out window gives a smurfing label
SmurfFlagged ==
    { a \in Accounts :
        \/ \E i \in ReceivedBy(a) : FanInWindow(a, i)
        \/ \E r \in Accounts : \E i \in ReceivedBy(r) :
               FanInWindow(r, i) /\ a \in SendersInWindow(r, i)
        \/ FanOutSender(a) }

OneSmurfingRing(rings) ==
    LET smurfing == SelectSeq(rings, LAMBDA r : r.pattern_type = "smurfing")
    IN  /\ Len(smurfing) <= 1
        /\ Len(smurfing) = 1 <=> Cardinality(SmurfFlagged) >= 2
        /\ Len(smurfing) = 1 =>
              /\ Range(smurfing[1].member_accounts) = SmurfFlagged
              /\ NoRepeat(smurfing[1].member_accounts)
              /\ smurfing[1].risk_score = 80

\* C14: a result holds at most one ring of type smurfing; the ring exists if
\* and only if 2 or more distinct accounts received fan_in, fan_out or
\* smurfing_source; it lists exactly those accounts, each once, with risk 80.
C14_OneSmurfingRing ==
    /\ SmurfingDone => OneSmurfingRing(fraudRings)
    /\ pc = "done" => OneSmurfingRing(result.fraud_rings)

\* a result whose smurfing ring has exactly two members, both fan-out senders
C14_Witness ==
    /\ pc = "done"
    /\ SmurfFlagged = {"X", "Y"}
    /\ \E k \in 1..Len(result.fraud_rings) :
          /\ result.fraud_rings[k].pattern_type = "smurfing"
          /\ Len(result.fraud_rings[k].member_accounts) = 2

\* the finished run was given the list of the run before it
SameListAgain ==
    /\ pc = "done"
    /\ previous.call = "analyzeTransactions"
    /\ previous.input = transactions

Transfers(a, b) ==
    { i \in 1..Len(transactions) :
        transactions[i].sender_id = a /\ transactions[i].receiver_id = b }

SampleSources == { "ACC_00201", "ACC_00202", "ACC_00203", "ACC_00204", "ACC_00205" }
SampleTargets == { "ACC_00210", "ACC_00211", "ACC_00212" }
NormalAccounts == { "ACC_00001", "ACC_00002", "ACC_00003" }

\* the list holds the sample's cycle, its five sources paying ACC_00200 within
\* 48 hours, the three payments out of ACC_00200 and the chain of four, and
\* every other transfer runs between normal accounts
HoldsSamplePatterns ==
    /\ Edge("ACC_00101", "ACC_00102") /\ Edge("ACC_00102", "ACC_00103")
    /\ Edge("ACC_00103", "ACC_00101")
    /\ \A a \in SampleSources : Edge(a, "ACC_00200")
    /\ \A i, j \in ReceivedBy("ACC_00200") :
          transactions[j].timestamp - transactions[i].timestamp <= 48 * Hour
    /\ \A a \in SampleTargets : Edge("ACC_00200", a)
    /\ Edge("ACC_00301", "ACC_00302") /\ Edge("ACC_00302", "ACC_00303")
    /\ Edge("ACC_00303", "ACC_00304")
    /\ \A i \in 1..Len(transactions) :
          \/ transactions[i].transaction_id >= 81
          \/ {transactions[i].sender_id, transactions[i].receiver_id} \subseteq NormalAccounts

ResultRingsOfType(type) ==
    { k \in 1..Len(result.fraud_rings) : result.fraud_rings[k].pattern_type = type }

\* C16: a list that holds the patterns of the embedded sample, with any
\* transfers among the normal accounts, yields a cycle ring, a smurfing ring,
\* a layered_shell ring and a non-empty suspicious_accounts list whose scores
\* never rise along the list.
C16_SampleYieldsAllRings ==
    (pc = "done" /\ HoldsSamplePatterns) =>
        /\ ResultRingsOfType("cycle") # {}
        /\ ResultRingsOfType("smurfing") # {}
        /\ ResultRingsOfType("layered_shell") # {}
        /\ result.suspicious_accounts # <<>>
        /\ \A i \in 1..(Len(result.suspicious_accounts) - 1) :
              result.suspicious_accounts[i].suspicion_score
                  >= result.suspicious_accounts[i + 1].suspicion_score

\* the sample's patterns behind three normal rows that close a cycle of their
\* own: the result holds two cycle rings and scores that differ
C16_Witness ==
    /\ pc = "done"
    /\ HoldsSamplePatterns
    /\ Len(transactions) = 17
    /\ Cardinality(ResultRingsOfType("cycle")) = 2
    /\ Cardinality(ResultRingsOfType("smurfing")) = 1
    /\ ResultRingsOfType("layered_shell") # {}
    /\ \E i, j \in 1..Len(result.suspicious_accounts) :
          result.suspicious_accounts[i].suspicion_score
              > result.suspicious_accounts[j].suspicion_score

\* C17: on the empty transaction list every detector returns an empty result
\* and none raises an error, and analyzeTransactions returns an empty
\* suspicious_accounts list, an empty fraud_rings list and the counts 0, 0, 0.
C17_EmptyListEmptyResult ==
    transactions = <<>> =>
        /\ pc # "error"
        /\ Started => adj = <<>> /\ allAccounts = {}
        /\ CyclesDone => cycles = <<>>
        /\ SmurfingDone => smurfingResults = <<>>
        /\ ShellsDone => shells = <<>>
        /\ VelocityDone => velocityResults = <<>>
        /\ pc \in {"roundtrip", "dormant", "assemble", "done"} => structuringResults = <<>>
        /\ pc \in {"dormant", "assemble", "done"} => roundTripResults = <<>>
        /\ pc \in {"assemble", "done"} => dormantResults = <<>>
        /\ Started => fraudRings = <<>> /\ accountRings = <<>> /\ accountPatterns = <<>>
        /\ pc = "done" =>
              /\ result.suspicious_accounts = <<>>
              /\ result.fraud_rings = <<>>
              /\ result.summary.total_accounts_analyzed = 0
              /\ result.summary.suspicious_accounts_flagged = 0
              /\ result.summary.fraud_rings_detected = 0

\* the run on the empty list has returned its result
C17_Witness ==
    /\ transactions = <<>>
    /\ pc = "done"
    /\ dormantResults = <<>>
    /\ result.summary.total_accounts_analyzed = 0

\* the paths on the stack of the running search repeat no account and hold at
\* most 5 accounts in detectCycles, at most 6 in detectLayeredShells
StackPathsBounded ==
    search.kind # "none" =>
        \A k \in 1..Len(search.st.stack) :
            /\ NoRepeat(search.st.stack[k].path)
            /\ Len(search.st.stack[k].path) <= (IF search.kind = "cycles" THEN 5 ELSE 6)

\* C18: a started run of analyzeTransactions returns a result: the path
\* searches of detectCycles and detectLayeredShells empty their stack for every
\* start node, as no path on the stack repeats an account or exceeds 5 (cycles)
\* or 6 (shells) accounts, and they end with the findings of the detectors.
C18_AnalysisTerminates ==
    /\ [](StackPathsBounded)
    /\ [](CyclesDone => cycles = detectCycles(adj))
    /\ [](ShellsDone => shells = detectLayeredShells(adj, txCounts))
    /\ [](Started => <>(pc = "done"))

\* the cycle search holds a path of 5 accounts on its stack
C18_Witness ==
    /\ search.kind = "cycles"
    /\ \E k \in 1..Len(search.st.stack) : Len(search.st.stack[k].path) = 5

\* every pattern list of a Map<string, string[]> holds each label once
ListsWithoutRepeats(m) == \A i \in 1..Len(m) : NoRepeat(m[i].val)

\* C19: at every step of a run and in the result, no pattern list of an
\* account holds a label twice: neither the lists the detectors return, nor
\* accountPatterns, nor detected_patterns of a reported account.
C19_LabelOncePerAccount ==
    /\ ListsWithoutRepeats(accountPatterns)
    /\ ListsWithoutRepeats(smurfingResults)
    /\ ListsWithoutRepeats(velocityResults)
    /\ ListsWithoutRepeats(structuringResults)
    /\ ListsWithoutRepeats(roundTripResults)
    /\ ListsWithoutRepeats(dormantResults)
    /\ pc = "done" =>
          \A k \in 1..Len(result.suspicious_accounts) :
              NoRepeat(result.suspicious_accounts[k].detected_patterns)

\* an account that lies on two reported cycles of 3 accounts, carries a
\* second label from another detector, and is reported
C19_Witness ==
    /\ pc = "done"
    /\ \E k \in 1..Len(result.suspicious_accounts) :
          LET e == result.suspicious_accounts[k]
          IN  /\ Cardinality({ c \in 1..Len(cycles) :
                                 Len(cycles[c]) = 3 /\ Includes(cycles[c], e.account_id) }) >= 2
              /\ Includes(e.detected_patterns, "cycle_length_3")
              /\ Len(e.detected_patterns) >= 2

\* the label of a cycle of n accounts
CycleLabel(n) ==
    CASE n = 3 -> "cycle_length_3"
      [] n = 4 -> "cycle_length_4"
      [] n = 5 -> "cycle_length_5"
      [] OTHER -> "cycle_length_other"

\* the rings of pattern_type cycle, in their order in the list
CycleRingsOf(rings) == SelectSeq(rings, LAMBDA r : r.pattern_type = "cycle")

\* the k-th cycle ring lists the k-th cycle as it was walked and carries the
\* risk score of its length
RingOfCycle(ring, cycle) ==
    /\ ring.pattern_type = "cycle"
    /\ ring.member_accounts = cycle
    /\ Len(cycle) \in 3..5
    /\ \A i \in 1..Len(cycle) : Edge(cycle[i], cycle[(i % Len(cycle)) + 1])
    /\ ring.risk_score = (CASE Len(cycle) = 3 -> 85 [] Len(cycle) = 4 -> 90 [] OTHER -> 95)
    /\ ring.risk_score = (IF 70 + 5 * Len(cycle) < 100 THEN 70 + 5 * Len(cycle) ELSE 100)

\* the labels cycle_length_N of a pattern map are those of the cycles
CycleLabelsOf(patterns) ==
    /\ \A k \in 1..Len(cycles) : \A a \in Range(cycles[k]) :
          Includes(MapGetOr(patterns, a, <<>>), CycleLabel(Len(cycles[k])))
    /\ \A i \in 1..Len(patterns) : \A n \in 3..5 :
          Includes(patterns[i].val, CycleLabel(n))
              => \E k \in 1..Len(cycles) :
                    Len(cycles[k]) = n /\ Includes(cycles[k], patterns[i].key)

\* C20: each cycle of detectCycles is one ring of type cycle, with the cycle
\* in traversal order as member_accounts and 85, 90 or 95 as risk_score for 3,
\* 4 or 5 accounts; every member carries cycle_length_N, and an account
\* carries cycle_length_N only as a member of a reported cycle of N accounts.
C20_CycleBecomesRing ==
    /\ CyclesDone =>
          /\ Len(CycleRingsOf(fraudRings)) = Len(cycles)
          /\ \A k \in 1..Len(cycles) : RingOfCycle(CycleRingsOf(fraudRings)[k], cycles[k])
          /\ NoRepeat([k \in 1..Len(cycles) |-> CycleRingsOf(fraudRings)[k].ring_id])
          /\ CycleLabelsOf(accountPatterns)
    /\ pc = "done" =>
          /\ CycleRingsOf(result.fraud_rings) = CycleRingsOf(fraudRings)
          /\ \A i \in 1..Len(result.suspicious_accounts) :
                LET e == result.suspicious_accounts[i]
                IN  \A n \in 3..5 :
                       Includes(e.detected_patterns, CycleLabel(n))
                          <=> \E k \in 1..Len(cycles) :
                                 Len(cycles[k]) = n /\ Includes(cycles[k], e.account_id)

\* a result with a ring for a cycle of 3, of 4 and of 5 accounts
C20_Witness ==
    /\ pc = "done"
    /\ \A n \in 3..5 :
          \E k \in 1..Len(result.fraud_rings) :
              /\ result.fraud_rings[k].pattern_type = "cycle"
              /\ Len(result.fraud_rings[k].member_accounts) = n

\* the account is a member of a reported shell chain
InShellChain(a) == \E k \in 1..Len(shells) : Includes(shells[k], a)

\* the account is neither first nor last in some reported shell chain
InteriorOfShellChain(a) ==
    \E k \in 1..Len(shells) : \E i \in 2..(Len(shells[k]) - 1) : shells[k][i] = a

\* the shell labels of a pattern list are those the chains give the account
ShellLabelsOf(a, pats) ==
    /\ Includes(pats, "layered_shell") <=> InShellChain(a)
    /\ Includes(pats, "low_activity_intermediary")
          <=> (InteriorOfShellChain(a) /\ TxCountOf(a) <= 3)

\* C21: an account carries layered_shell exactly when it is a member of a
\* reported shell chain, and low_activity_intermediary exactly when it is an
\* interior member of a reported chain and takes part in at most 3
\* transactions; an account that is only first or last never carries it.
C21_ShellLabels ==
    /\ ShellsDone =>
          \A a \in Accounts : ShellLabelsOf(a, MapGetOr(accountPatterns, a, <<>>))
    /\ pc = "done" =>
          \A k \in 1..Len(result.suspicious_accounts) :
              ShellLabelsOf(result.suspicious_accounts[k].account_id,
                            result.suspicious_accounts[k].detected_patterns)

\* a result with an interior member that carries both labels and a member of
\* at most 3 transactions that is only first or last and carries one
C21_Witness ==
    /\ pc = "done"
    /\ \E i, j \in 1..Len(result.suspicious_accounts) :
          LET e == result.suspicious_accounts[i]
              f == result.suspicious_accounts[j]
          IN  /\ Includes(e.detected_patterns, "layered_shell")
              /\ Includes(e.detected_patterns, "low_activity_intermediary")
              /\ Includes(f.detected_patterns, "layered_shell")
              /\ ~Includes(f.detected_patterns, "low_activity_intermediary")
              /\ TxCountOf(f.account_id) <= 3

StructuringDone == VelocityDone /\ pc # "structuring"
RoundTripDone   == StructuringDone /\ pc # "roundtrip"
DormantDone     == RoundTripDone /\ pc # "dormant"

\* the pairs of an outgoing transaction of the account and a threshold whose
\* margin band holds the amount, amounts in cents
StructuringPairs(a) ==
    { p \in (1..Len(transactions)) \X {1000000, 500000, 300000} :
        /\ transactions[p[1]].sender_id = a
        /\ p[2] - 50000 <= transactions[p[1]].amount
        /\ transactions[p[1]].amount < p[2] }

\* C22: detectStructuring labels a sender structuring exactly when at least 3
\* pairs of one of its outgoing transactions and a threshold h of 10000, 5000,
\* 3000 have h - 500 <= amount < h; an amount equal to a threshold and an
\* incoming transaction do not count.
C22_StructuringIffThreePairs ==
    StructuringDone =>
        /\ \A a \in Accounts :
              MapHas(structuringResults, a) <=> Cardinality(StructuringPairs(a)) >= 3
        /\ \A k \in 1..Len(structuringResults) :
              structuringResults[k].val = <<"structuring">>

\* X is labeled by three amounts inside the bands, one of them on the lower
\* edge of its band, next to an amount on the threshold that does not count;
\* Y, with an incoming transfer into X inside a band, is not labeled
C22_Witness ==
    /\ pc = "done"
    /\ MapHas(structuringResults, "X")
    /\ \E i, j \in 1..Len(transactions) :
          /\ transactions[i].sender_id = "X" /\ transactions[i].amount = 950000
          /\ transactions[j].sender_id = "X" /\ transactions[j].amount = 1000000
    /\ \E i \in 1..Len(transactions) :
          transactions[i].receiver_id = "X" /\ transactions[i].amount = 260000
    /\ ~MapHas(structuringResults, "Y")

\* the outgoing transactions of an account, as detectStructuring groups them
OutgoingOf(a) == SelectSeq(transactions, LAMBDA t : t.sender_id = a)

\* the amount, in cents, lies in [9500, 10000), [4500, 5000) or [2500, 3000)
InStructuringBand(amount) ==
    \/ 950000 <= amount /\ amount < 1000000
    \/ 450000 <= amount /\ amount < 500000
    \/ 250000 <= amount /\ amount < 300000

\* C30: with thresholds 10000, 5000, 3000 and margin 500 no transaction adds
\* more than 1 to the structuring count of its sender, the count is the number
\* of the sender's outgoing transactions with an amount in one of the three
\* bands, and a labeled sender has at least 3 outgoing transactions.
C30_OneCountPerTransaction ==
    /\ \A i \in 1..Len(transactions) : StructuringHits(transactions[i].amount, 1) <= 1
    /\ \A a \in Accounts :
          StructuringCount(OutgoingOf(a))
              = Cardinality({ i \in 1..Len(transactions) :
                                /\ transactions[i].sender_id = a
                                /\ InStructuringBand(transactions[i].amount) })
    /\ StructuringDone =>
          \A k \in 1..Len(structuringResults) :
              Len(OutgoingOf(structuringResults[k].key)) >= 3

\* a labeled sender whose count of 3 is below the number of its outgoing
\* transactions
C30_Witness ==
    /\ StructuringDone
    /\ \E k \in 1..Len(structuringResults) :
          LET a == structuringResults[k].key
          IN  /\ StructuringCount(OutgoingOf(a)) = 3
              /\ Len(OutgoingOf(a)) = 4

\* a transaction from a to b and one from b to a, at most 7 days apart in
\* either direction, the smaller amount at least 85% of the larger
RoundTripBetween(a, b) ==
    \E i, j \in 1..Len(transactions) :
        LET t1 == transactions[i]
            t2 == transactions[j]
        IN  /\ t1.sender_id = a /\ t1.receiver_id = b
            /\ t2.sender_id = b /\ t2.receiver_id = a
            /\ t1.timestamp - t2.timestamp <= 7 * 24 * Hour
            /\ t2.timestamp - t1.timestamp <= 7 * 24 * Hour
            /\ (IF t1.amount <= t2.amount
                THEN 100 * t1.amount >= 85 * t2.amount
                ELSE 100 * t2.amount >= 85 * t1.amount)

RoundTripLabeled(a) ==
    MapHas(roundTripResults, a) /\ Includes(MapGet(roundTripResults, a), "round_trip")

\* C23: detectRoundTrips labels the accounts A and B round_trip exactly when
\* some transaction from A to B and some transaction from B to A lie at most 7
\* days apart with the smaller amount at least 85% of the larger, and the two
\* accounts of such a pair are labeled together.
C23_RoundTripIffMatchingPair ==
    RoundTripDone =>
        /\ \A a \in Accounts : RoundTripLabeled(a) <=> \E b \in Accounts : RoundTripBetween(a, b)
        /\ \A a, b \in Accounts : RoundTripBetween(a, b) => RoundTripLabeled(a) /\ RoundTripLabeled(b)

\* C26: an account that detectRoundTrips labels round_trip has a transaction
\* to another account and a different transaction back from that account; one
\* transaction alone, such as a transfer of an account to itself, never gives
\* the label.
C26_RoundTripNeedsTwoTransactions ==
    RoundTripDone =>
        \A a \in Accounts :
            RoundTripLabeled(a) =>
                \E b \in Accounts \ {a} :
                    \E i, j \in 1..Len(transactions) :
                        /\ i # j
                        /\ transactions[i].sender_id = a /\ transactions[i].receiver_id = b
                        /\ transactions[j].sender_id = b /\ transactions[j].receiver_id = a

\* the largest and the smallest member of a non-empty set of numbers
SetMax(S) == CHOOSE x \in S : \A y \in S : y <= x

Timestamps == { transactions[i].timestamp : i \in 1..Len(transactions) }

\* the transactions of the account, sent plus received
ActivityOf(a) == Cardinality(SentBy(a)) + Cardinality(ReceivedBy(a))

\* the transactions of the account, sent plus received, with a timestamp in
\* the 48 hours that begin at the anchor
BurstOf(a, anchor) ==
    LET In(i) == /\ transactions[i].timestamp >= anchor
                 /\ transactions[i].timestamp <= anchor + 48 * Hour
    IN  Cardinality({ i \in SentBy(a) : In(i) }) + Cardinality({ i \in ReceivedBy(a) : In(i) })

\* the time between the account's first and last transaction
OwnSpan(a) ==
    LET ts == { transactions[i].timestamp : i \in SentBy(a) \cup ReceivedBy(a) }
    IN  SetMax(ts) - SetMin(ts)

DormantLabeled(a) ==
    MapHas(dormantResults, a) /\ Includes(MapGet(dormantResults, a), "dormant_activation")

C25_RingMembersAreReported ==
    pc = "done" =>
        \A k \in 1..Len(result.fraud_rings) :
            \A a \in Range(result.fraud_rings[k].member_accounts) :
                \E i \in 1..Len(result.suspicious_accounts) :
                    result.suspicious_accounts[i].account_id = a

\* what a result says of each account and of each kind of ring: the reported
\* accounts with score and label set, and the number of rings of each type
OutcomeOf(res) ==
    [accounts |-> { [account_id |-> res.suspicious_accounts[i].account_id,
                     suspicion_score |-> res.suspicious_accounts[i].suspicion_score,
                     detected_patterns |-> Range(res.suspicious_accounts[i].detected_patterns)] :
                    i \in 1..Len(res.suspicious_accounts) },
     rings |-> [type \in {"cycle", "smurfing", "layered_shell"} |->
                  Cardinality({ k \in 1..Len(res.fraud_rings) :
                                  res.fraud_rings[k].pattern_type = type })]]

\* the finished run was given the transactions of the run before it in another order
PermutedListAgain ==
    /\ pc = "done"
    /\ previous.call = "analyzeTransactions"
    /\ previous.input # transactions
    /\ Range(previous.input) = Range(transactions)

\* C27: the runs on a list and on a permutation of it report the same
\* accounts, each with the same score and the same set of labels, and the same
\* number of rings of each pattern_type.
C27_OrderOfInputIrrelevant ==
    PermutedListAgain => OutcomeOf(result) = OutcomeOf(previous.result)

\* the final score of the call's labels, ring count and bonuses without any
\* suppression
UnsuppressedScore == Min2(RunningTotal, 100)

\* a call in which the merchant or the payroll suppression applies to a
\* positive running total
SuppressedCall == Returned /\ (MerchantCase \/ PayrollCase) /\ RunningTotal > 0

\* what the suppression that applies takes off the running total
SuppressionOf == IF MerchantCase THEN 15 ELSE 20

\* C28 as stated: whenever a suppression applies to a positive running total,
\* the returned score is strictly lower than the score without suppression.
C28_SuppressionStrictlyLowers ==
    SuppressedCall => scoreResult < UnsuppressedScore

\* C28, amended: whenever a suppression applies to a positive running total,
\* the returned score is not higher than the score without suppression, and
\* it is strictly lower exactly when the lowered total lies below 100.
C28_SuppressionLowersBelowCap ==
    SuppressedCall =>
        /\ scoreResult <= UnsuppressedScore
        /\ scoreResult < UnsuppressedScore <=> RunningTotal - SuppressionOf < 100

\* a merchant whose lowered total is still 100 or more and who is scored 100,
\* as without the suppression
C28_Witness ==
    /\ SuppressedCall
    /\ MerchantCase
    /\ RunningTotal - 15 >= 100
    /\ scoreResult = 100

\* the place, in the fixed sequence of the detectors, of the first detector
\* whose findings analyzeTransactions records for the account; 8 for an
\* account that no detector flags
FirstFlaggedBy(a) ==
    IF \E k \in 1..Len(cycles) : Includes(cycles[k], a) THEN 1
    ELSE IF Len(smurfingResults) >= 2 /\ MapHas(smurfingResults, a) THEN 2
    ELSE IF InShellChain(a) THEN 3
    ELSE IF MapHas(velocityResults, a) THEN 4
    ELSE IF MapHas(structuringResults, a) THEN 5
    ELSE IF MapHas(roundTripResults, a) THEN 6
    ELSE IF MapHas(dormantResults, a) THEN 7
    ELSE 8

\* the accounts the assembly loop iterates over
FlaggedAccounts ==
    { accountRings[k].key : k \in 1..Len(accountRings) }
        \cup { accountPatterns[k].key : k \in 1..Len(accountPatterns) }

\* C29: the assembly loop meets the accounts in the order in which the
\* detectors, run as cycles, smurfing, shells, high-velocity, structuring,
\* round-trip, dormant, first flagged them: an account first flagged by an
\* earlier detector is never met after one first flagged by a later detector.
C29_EncounterFollowsDetectors ==
    pc \in {"assemble", "done"} =>
        \A a, b \in FlaggedAccounts :
            FirstFlaggedBy(a) < FirstFlaggedBy(b) => EncounterRank(a) < EncounterRank(b)

=============================================================================
